---- MODULE Spec2Model ----
(***************************************************************************)
(* ScanRappel: the client-side orchestration around the vision model call. *)
(* The model covers the in-memory response cache, withRetry (cache lookup, *)
(* retry loop, exponential backoff), uploadImageToFirebase with its base64 *)
(* fallback, and analyzeProductImage, as asynchronous tasks interleaving   *)
(* on one event loop.  Time is in milliseconds, as Date.now() gives it.    *)
(***************************************************************************)
EXTENDS Integers, Sequences, FiniteSets, TLC

\* ------------------------------------------------------------------------
\* Bounds of the model
\* ------------------------------------------------------------------------
\* total number of calls (withRetry or analyzeProductImage) ever started
MaxCalls == 2
\* number of times the environment lets wall-clock time pass on its own
MaxTicks == 5

\* number of Tick steps, and of calls, when two tasks run concurrently
MaxTicksConc == 2
MaxCallsConc == 2
MaxSaves == 2
MaxSavesConc == 2

\* the places a task can run in: two tasks can be in progress at a time
Slots == {1, 2}

\* ------------------------------------------------------------------------
\* Program constants
\* ------------------------------------------------------------------------
CACHE_EXPIRY == 86400000
BACKOFF_CAP == 30000
DEFAULT_MAX_RETRIES == 5

\* ------------------------------------------------------------------------
\* JavaScript values.  Every value is a string; Null stands for null and
\* undefined, "" is the empty string.  Both are falsy.
\* ------------------------------------------------------------------------
Null == "null"

Truthy(v) == v \notin {Null, ""}

\* cacheKey arguments of a direct withRetry call: absent, empty, two keys
DirectKeys == {Null, "", "k1", "k2"}

\* image URIs handed to analyzeProductImage
ImageUris == {"file:///a.jpg", "file:///b.jpg"}

\* `${functionName}:${JSON.stringify(params)}` on the strings of the model
generateCacheKey(functionName, params) ==
    CASE functionName = "analyzeProductImage" /\ params = "file:///a.jpg"
           -> "analyzeProductImage:\"file:///a.jpg\""
      [] functionName = "analyzeProductImage" /\ params = "file:///b.jpg"
           -> "analyzeProductImage:\"file:///b.jpg\""
      [] OTHER -> "other:null"

\* the keys responseCache can hold an entry for
CacheKeys ==
    {k \in DirectKeys : Truthy(k)}
      \cup {generateCacheKey("analyzeProductImage", u) : u \in ImageUris}

\* maxRetries arguments of a direct withRetry call
MaxRetriesChoices == {0, 1, DEFAULT_MAX_RETRIES}

\* cacheKey and maxRetries arguments when two tasks run concurrently
ConcKeys == {Null, "k1"}
MaxRetriesConc == {0, 1}

\* results of the operation of a direct withRetry call ("" is a falsy result)
OpResults == {"r1", ""}

\* chat completion objects: with text content, with empty content, and a
\* body without a choices array
RespText == "completion:text"
RespEmpty == "completion:empty"
RespNoChoices == "completion:nochoices"
Completions == {RespText, RespEmpty, RespNoChoices}

\* failure values an operation can reject with
OpErrors == {"e1", "e2"}

\* 0.5 + Math.random(), in thousandths: Math.random() is in [0, 1)
JitterMilli == {500, 1499}

\* how far the clock moves in one step: past any backoff wait, and to the
\* instant a cache entry written one such step earlier expires
TickSet == {BACKOFF_CAP, CACHE_EXPIRY - BACKOFF_CAP}

Min(a, b) == IF a <= b THEN a ELSE b

Pow2(n) == 2 ^ n

VARIABLES
    now,            \* Date.now()
    responseCache,  \* the module-level cache: key -> entry or absent
    call,           \* per slot: the task running there
    hasApiKey,      \* process.env.EXPO_PUBLIC_OPENAI_API_KEY is set
    lastSuccess,    \* history: per key, time of the last successful attempt
    lastAnalysis,   \* history: per image URI, time of the last model success
    started,        \* number of calls started so far
    ticks,          \* number of Tick steps so far
    scanHistory,    \* Firestore collection 'scanHistory': documents, oldest first
    asyncStorage,   \* AsyncStorage: per key, the stored string or NoItem
    task,           \* per slot, a saveScanHistory or getScanHistory call in flight
    saves,          \* history: per userId, the saveScanHistory calls started so far
    lastSaved,      \* history: the save that returned last and stored its record
    text,           \* the text extractFromResponse is called with
    keys,           \* its primary key and alternate keys
    extracted,      \* what it returned
    reply,          \* what analyzeProductImage got before its parsing steps
    analysed,       \* what analyzeProductImage returned for that reply
    user,           \* useAuth().user of the home screen: a uid or null
    isLoading,      \* the loading flag of the home screen
    scan,           \* the processImage call of the home screen
    scans           \* number of processImage calls started so far

vars == <<now, responseCache, call, hasApiKey, lastSuccess, lastAnalysis, started, ticks,
          scanHistory, asyncStorage, task, saves, lastSaved, text, keys, extracted,
          reply, analysed, user, isLoading, scan, scans>>

\* the state of the OpenAI service's calls, of the history store, of the extractor
openai == <<now, responseCache, call, hasApiKey, lastSuccess, lastAnalysis, started, ticks>>

store == <<scanHistory, asyncStorage, task, saves, lastSaved>>

extractor == <<text, keys, extracted>>

\* the state of the parsing steps of analyzeProductImage, of the home screen
parser == <<reply, analysed>>

screen == <<user, isLoading, scan, scans>>

\* what withRetry and analyzeProductImage never touch
other == <<store, extractor, parser, screen>>

NoEntry == [present |-> FALSE, timestamp |-> 0, response |-> Null]

\* nutritionalInfo: null or the four fields
NullInfo == [isNull |-> TRUE, calories |-> "", fats |-> "", carbs |-> "", proteins |-> ""]

NoUrl == [scheme |-> "", body |-> ""]

NoResult == [productName |-> "", description |-> "", nutritionalInfo |-> NullInfo]

IdleCall ==
    [ kind |-> "none",           \* "none", "execute", "analyze"
      \* withRetry's locals
      pc |-> "idle",             \* "idle", "invoking", "waiting", "returned", "threw"
      cacheKey |-> Null,
      maxRetries |-> 0,
      retries |-> 0,
      backoff |-> 0,
      wakeAt |-> 0,
      result |-> Null,
      error |-> Null,
      \* history of this withRetry call
      invocations |-> 0,         \* calls of fn()
      failed |-> 0,              \* rejected calls of fn()
      waits |-> 0,               \* backoff waits started
      lookups |-> 0,             \* getCachedResponse calls
      hit |-> FALSE,             \* returned from the cache
      priorSuccess |-> FALSE,    \* at entry: a success for this key < 24 h ago
      entryAge |-> -1,           \* at entry: age of the entry for this key, -1 if none
      lastRaised |-> Null,       \* failure raised by the attempt it gave up on
      successAt |-> -1,          \* time the operation succeeded
      \* analyzeProductImage's locals
      apc |-> "none",            \* "none","fetch","uploadBytes","getDownloadURL","base64","model","done"
      imageUri |-> Null,
      imageUrl |-> NoUrl,
      out |-> NoResult,
      raised |-> FALSE,          \* analyzeProductImage rejected
      caught |-> Null,           \* the exception its catch block got
      \* history of this analyzeProductImage call
      uploads |-> 0,             \* uploadImageToFirebase calls
      threwAt |-> "none",        \* where an exception arose: "config", "upload", "model", "parse"
      recentAtEntry |-> FALSE,   \* at entry: a model success for this URI < 24 h ago
      recentAtLookup |-> FALSE,  \* the same, when withRetry is entered
      remoteFailed |-> FALSE,    \* a step of the remote upload failed
      fileRead |-> "none"        \* imageToBase64's read: "none", "ok", "failed"
    ]

\* ------------------------------------------------------------------------
\* The history store: values
\* ------------------------------------------------------------------------
UserIds == {"u1", "u2"}

\* what a caller passes as userId; "" is the absent one
UserIdArgs == UserIds \cup {""}

RecallInfos ==
    { [isRecalled |-> FALSE, recallReason |-> ""],
      [isRecalled |-> TRUE, recallReason |-> "listeria"] }

\* productDetails.scanDate, a Date, in milliseconds
ScanDates == {1999, 2000}

\* productDetails, by the fields the history store filters, sorts or returns
ProductDetails == [recallInfo : RecallInfos, scanDate : ScanDates]

\* the details two concurrent saves choose from
ConcDetails == {p \in ProductDetails : p.scanDate = 2000}

NoDetails == [recallInfo |-> [isRecalled |-> FALSE, recallReason |-> ""], scanDate |-> 0]

\* Timestamp.fromDate(date) and timestamp.toDate()
TimestampFromDate(d) ==
    [seconds |-> d \div 1000, nanoseconds |-> (d % 1000) * 1000000]

toDate(ts) == ts.seconds * 1000 + ts.nanoseconds \div 1000000

\* date.toISOString() and new Date(isoString): millisecond precision
toISOString(d) == <<"iso", d \div 1000, d % 1000>>

DateOfISOString(str) == str[2] * 1000 + str[3]

\* AsyncStorage.getItem's null: no string under the key
NoItem == [present |-> FALSE, json |-> <<>>]

\* JSON.stringify(localHistory) and JSON.parse(localHistoryStr)
JSONstringify(list) == [present |-> TRUE, json |-> list]

JSONparse(str) == str.json

NoData == [userId |-> "", recallInfo |-> NoDetails.recallInfo,
           scanDate |-> TimestampFromDate(0)]

\* the document saveScanHistory builds from its arguments
firestoreData(userId, productDetails) ==
    [userId |-> userId,
     recallInfo |-> productDetails.recallInfo,
     scanDate |-> TimestampFromDate(productDetails.scanDate)]

\* the record of the local fallback: the document, a local id, ISO dates
localScanData(data, productDetails, clock) ==
    [userId |-> data.userId,
     recallInfo |-> data.recallInfo,
     id |-> <<"local_", clock>>,
     scanDate |-> toISOString(productDetails.scanDate)]

\* `scanHistory_${userId}` under one key for every user
LocalKeyShared(userId) == <<"scanHistory_", "">>

\* `scanHistory_${userId}`
LocalKey(userId) == <<"scanHistory_", userId>>

\* `if (!userId)` never taken
UserIdAbsentIgnored(userId) == FALSE

\* `if (!userId)`
UserIdAbsent(userId) == ~Truthy(userId)

NoSave == [userId |-> "", recallInfo |-> NoDetails.recallInfo, stored |-> FALSE]

IdleTask ==
    [ op |-> "none",             \* "none", "save", "list"
      pc |-> "idle",             \* "idle", "addDoc", "getItem", "setItem", "getDocs", "done"
      userId |-> "",
      productDetails |-> NoDetails,
      data |-> NoData,           \* firestoreData
      pending |-> NoItem,         \* the string handed to AsyncStorage.setItem
      result |-> <<>>,           \* what getScanHistory returned
      raised |-> FALSE,          \* the call ended by an exception reaching the caller
      \* history of the call
      remote |-> "none",         \* the remote step: "none", "ok", "failed"
      localRead |-> "none",      \* AsyncStorage.getItem: "none", "ok", "failed"
      localWrite |-> "none",     \* AsyncStorage.setItem: "none", "ok", "failed"
      addDocCalls |-> 0,
      getItemCalls |-> 0,
      setItemCalls |-> 0,
      priorSaves |-> 0           \* saves[userId] when the call started
    ]

InitStore ==
    /\ scanHistory = <<>>
    /\ asyncStorage = [k \in {LocalKey(u) : u \in UserIdArgs} |-> NoItem]
    /\ task = [c \in Slots |-> IdleTask]
    /\ saves = [u \in UserIdArgs |-> 0]
    /\ lastSaved = NoSave

NotExtracted == [done |-> FALSE, isNull |-> TRUE, value |-> <<>>]

\* no extractFromResponse call
NoExtract ==
    /\ text = <<>>
    /\ keys = <<>>
    /\ extracted = NotExtracted

\* no reply to parse
NoReply == [kind |-> "none", content |-> <<>>]

NotAnalysed ==
    [done |-> FALSE, caught |-> FALSE, productName |-> <<>>, description |-> <<>>,
     nutritionalInfo |-> [isNull |-> TRUE, calories |-> <<>>, fats |-> <<>>,
                          carbs |-> <<>>, proteins |-> <<>>]]

NoParse ==
    /\ reply = NoReply
    /\ analysed = NotAnalysed

\* no processImage call
IdleScan ==
    [ pc |-> "idle",            \* "idle", "analyze", "recall", "save", "done"
      uid |-> Null,             \* `user` of the render the call was made in
      analysis |-> "none",      \* what analyzeProductImage returned: "parsed", "sentinel"
      recall |-> "none",        \* verifyProductRecall: "ok", "failed"
      saveCalls |-> 0,          \* saveScanHistory calls of this processImage call
      savedUid |-> Null,        \* the userId of the saveScanHistory call
      savedAfter |-> "none",    \* the value of recall when saveScanHistory was called
      error |-> Null            \* setError(...)
    ]

NoScreen ==
    /\ user = Null
    /\ isLoading = FALSE
    /\ scan = IdleScan
    /\ scans = 0

Init ==
    /\ now = 0
    /\ responseCache = [k \in CacheKeys |-> NoEntry]
    /\ call = [c \in Slots |-> IdleCall]
    /\ hasApiKey = TRUE
    /\ lastSuccess = [k \in CacheKeys |-> -1]
    /\ lastAnalysis = [u \in ImageUris |-> -1]
    /\ started = 0
    /\ ticks = 0
    /\ InitStore
    /\ NoExtract
    /\ NoParse
    /\ NoScreen

\* ------------------------------------------------------------------------
\* The cache
\* ------------------------------------------------------------------------
getCachedResponseAtExpiry(cacheKey) ==
    LET cached == responseCache[cacheKey]
    IN  IF cached.present /\ now - cached.timestamp <= CACHE_EXPIRY
        THEN cached.response
        ELSE Null

getCachedResponse(cacheKey) ==
    LET cached == responseCache[cacheKey]
    IN  IF cached.present /\ now - cached.timestamp < CACHE_EXPIRY
        THEN cached.response
        ELSE Null

setCachedResponseStale(cacheKey, response) ==
    [responseCache EXCEPT ![cacheKey] =
        [present |-> TRUE, timestamp |-> 0, response |-> response]]

setCachedResponse(cacheKey, response) ==
    [responseCache EXCEPT ![cacheKey] =
        [present |-> TRUE, timestamp |-> now, response |-> response]]

\* ------------------------------------------------------------------------
\* Backoff
\* ------------------------------------------------------------------------
getBackoffTimeUncapped(retries, jitter) == Pow2(retries) * jitter

\* jitter is 0.5 + Math.random() in thousandths, so that
\* 2^retries * jitter * 1000 ms is Pow2(retries) * jitter
getBackoffTime(retries, jitter) ==
    Min(Pow2(retries) * jitter, BACKOFF_CAP)

\* ------------------------------------------------------------------------
\* withRetry
\* ------------------------------------------------------------------------
\* `if (retries >= maxRetries)`: the attempt that just failed was the last
RetriesExhaustedLate(retries, maxRetries) == retries > maxRetries

\* a catch block that never gives up
RetriesExhaustedNever(retries, maxRetries) == FALSE

RetriesExhausted(retries, maxRetries) == retries >= maxRetries

\* `throw error`: what the catch block raises for the failure it caught
RethrowWrapped(error) == "Error: maximum retries reached"

Rethrow(error) == error

\* A second caller of a key that is being fetched shares that fetch.
withRetryEnterShared(r, cacheKey, maxRetries) ==
    LET keyed == Truthy(cacheKey)
        cached == IF keyed THEN getCachedResponse(cacheKey) ELSE Null
        isHit == keyed /\ Truthy(cached)
        inFlight == \E d \in Slots :
                        /\ call[d].pc \in {"invoking", "waiting"}
                        /\ call[d].cacheKey = cacheKey
    IN  [r EXCEPT !.pc = IF isHit THEN "returned" ELSE "invoking",
                  !.cacheKey = cacheKey,
                  !.maxRetries = maxRetries,
                  !.retries = 0,
                  !.result = IF isHit THEN cached ELSE Null,
                  !.invocations = IF isHit \/ (keyed /\ inFlight) THEN 0 ELSE 1,
                  !.lookups = IF keyed THEN 1 ELSE 0,
                  !.hit = isHit]

\* withRetry from its entry to its first await: the cache lookup, then either
\* the return of the cached value or the first call of fn().
withRetryEnter(r, cacheKey, maxRetries) ==
    LET keyed == Truthy(cacheKey)
        cached == IF keyed THEN getCachedResponse(cacheKey) ELSE Null
        isHit == keyed /\ Truthy(cached)
        entry == IF keyed THEN responseCache[cacheKey] ELSE NoEntry
    IN  [r EXCEPT !.pc = IF isHit THEN "returned" ELSE "invoking",
                  !.cacheKey = cacheKey,
                  !.maxRetries = maxRetries,
                  !.retries = 0,
                  !.result = IF isHit THEN cached ELSE Null,
                  !.invocations = IF isHit THEN 0 ELSE 1,
                  !.lookups = IF keyed THEN 1 ELSE 0,
                  !.hit = isHit,
                  !.priorSuccess = /\ keyed
                                   /\ lastSuccess[cacheKey] >= 0
                                   /\ now - lastSuccess[cacheKey] < CACHE_EXPIRY,
                  !.entryAge = IF entry.present THEN now - entry.timestamp ELSE -1]

\* a hit that rewrote the entry with the time of the hit
CacheAfterHitRefreshed(cacheKey) ==
    [responseCache EXCEPT ![cacheKey].timestamp = now]

\* `if (cached) return cached`: getCachedResponse only reads responseCache
CacheAfterHit(cacheKey) == responseCache

\* a catch block that dropped the entry of the key
CacheAfterRejectEvicts(cacheKey) ==
    IF cacheKey \in DOMAIN responseCache
    THEN [responseCache EXCEPT ![cacheKey] = NoEntry]
    ELSE responseCache

\* the catch block of withRetry has no statement on responseCache
CacheAfterReject(cacheKey) == responseCache

\* `retries++` and the next fn() call with no wait in between
RetryAtOnce(r, backoffTime) ==
    [r EXCEPT !.pc = "invoking",
              !.retries = @ + 1,
              !.failed = @ + 1,
              !.invocations = @ + 1]

\* `retries++`, then `await new Promise(resolve => setTimeout(resolve, backoffTime))`
StartBackoff(r, backoffTime) ==
    [r EXCEPT !.pc = "waiting",
              !.retries = @ + 1,
              !.backoff = backoffTime,
              !.wakeAt = now + backoffTime,
              !.failed = @ + 1,
              !.waits = @ + 1]

\* A caller starts withRetry(fn, k, m) on its own.
Execute(c, k, m) ==
    /\ call[c].kind = "none"
    /\ \A d \in Slots : d < c => call[d].kind # "none"
    /\ started < MaxCalls
    /\ call' = [call EXCEPT ![c] =
                  withRetryEnter([IdleCall EXCEPT !.kind = "execute"], k, m)]
    /\ responseCache' = IF withRetryEnter(IdleCall, k, m).hit
                        THEN CacheAfterHit(k)
                        ELSE responseCache
    /\ started' = started + 1
    /\ UNCHANGED <<other, now, hasApiKey, lastSuccess, lastAnalysis, ticks>>

ResultsOf(kind) == IF kind = "execute" THEN OpResults ELSE Completions

\* `await fn()` resolves with v: the result is cached under a provided key
\* and returned.
FnResolve(c, v) ==
    /\ call[c].pc = "invoking"
    /\ v \in ResultsOf(call[c].kind)
    /\ responseCache' = IF Truthy(call[c].cacheKey)
                        THEN setCachedResponse(call[c].cacheKey, v)
                        ELSE responseCache
    /\ lastSuccess' = IF Truthy(call[c].cacheKey)
                      THEN [lastSuccess EXCEPT ![call[c].cacheKey] = now]
                      ELSE lastSuccess
    /\ lastAnalysis' = IF call[c].kind = "analyze"
                       THEN [lastAnalysis EXCEPT ![call[c].imageUri] = now]
                       ELSE lastAnalysis
    /\ call' = [call EXCEPT ![c].pc = "returned",
                            ![c].result = v,
                            ![c].successAt = now]
    /\ UNCHANGED <<other, now, hasApiKey, started, ticks>>

\* `await fn()` rejects with e: the catch block either gives up or starts the
\* backoff wait of the next retry.
FnReject(c, e) ==
    /\ call[c].pc = "invoking"
    /\ IF RetriesExhausted(call[c].retries, call[c].maxRetries)
       THEN call' = [call EXCEPT ![c].pc = "threw",
                                 ![c].error = Rethrow(e),
                                 ![c].lastRaised = e,
                                 ![c].failed = @ + 1]
       ELSE \E jitter \in JitterMilli :
              LET backoffTime == getBackoffTime(call[c].retries + 1, jitter)
              IN  call' = [call EXCEPT ![c] = StartBackoff(call[c], backoffTime)]
    /\ responseCache' = CacheAfterReject(call[c].cacheKey)
    /\ UNCHANGED <<other, now, hasApiKey, lastSuccess, lastAnalysis, started, ticks>>

\* The setTimeout of the backoff wait has come due and fires: the loop calls
\* fn() again.
TimerFire(c) ==
    /\ call[c].pc = "waiting"
    /\ now >= call[c].wakeAt
    /\ call' = [call EXCEPT ![c].pc = "invoking",
                            ![c].backoff = 0,
                            ![c].wakeAt = 0,
                            ![c].invocations = @ + 1]
    /\ UNCHANGED <<other, now, responseCache, hasApiKey, lastSuccess, lastAnalysis, started, ticks>>

\* Wall-clock time passes.
Tick(d) ==
    /\ ticks < MaxTicks
    /\ now' = now + d
    /\ ticks' = ticks + 1
    /\ UNCHANGED <<other, responseCache, call, hasApiKey, lastSuccess, lastAnalysis, started>>

\* The caller of a finished direct withRetry call is done with it.
ReleaseExecute(c) ==
    /\ call[c].kind = "execute"
    /\ call[c].pc \in {"returned", "threw"}
    /\ call' = [call EXCEPT ![c] = IdleCall]
    /\ UNCHANGED <<other, now, responseCache, hasApiKey, lastSuccess, lastAnalysis, started, ticks>>

\* ------------------------------------------------------------------------
\* uploadImageToFirebase and analyzeProductImage
\* ------------------------------------------------------------------------
\* what analyzeProductImage returns from its catch block
Sentinel ==
    [productName |-> "Unknown Product",
     description |-> "Unable to analyze the product image at this time. Please try again later.",
     nutritionalInfo |-> NullInfo]

\* the text the model answers with in a RespText completion
\*   Product Name: Acme Cola
\*   Description: A sweet soda
\*   Calories: 140 kcal
\*   Fats: 0g
\*   Carbohydrates: 39g
\*   Proteins: 0g
\* and what the extraction steps of analyzeProductImage make of a completion:
\* every field of RespText is found by the "Key: value" pattern of its
\* primary key; an empty content matches nothing, so the name falls through
\* to 'Unknown Product', the description to the (empty) response text and
\* each nutritional field to 'Not available'.
ParseCompletion(response) ==
    IF response = RespText
    THEN [productName |-> "Acme Cola",
          description |-> "A sweet soda",
          nutritionalInfo |->
              [isNull |-> FALSE, calories |-> "140 kcal", fats |-> "0g",
               carbs |-> "39g", proteins |-> "0g"]]
    ELSE [productName |-> "Unknown Product",
          description |-> "",
          nutritionalInfo |->
              [isNull |-> FALSE, calories |-> "Not available",
               fats |-> "Not available", carbs |-> "Not available",
               proteins |-> "Not available"]]

\* `response.choices[0]` throws a TypeError when the body has no choices
ParseThrows(response) == response = RespNoChoices

\* FileSystem.readAsStringAsync(uri, Base64) on the files of the model
Base64Of(uri) ==
    IF uri = "file:///a.jpg" THEN "/9j/4AAQSkZJRgABAQAAAQ==" ELSE "/9j/4AAQSkZJRgABAgAAZA=="

\* the cache key analyzeProductImage hands to withRetry
AnalysisCacheKeyNone(imageUri) == Null

AnalysisCacheKey(imageUri) == generateCacheKey("analyzeProductImage", imageUri)

\* `if (!process.env.EXPO_PUBLIC_OPENAI_API_KEY)`
CredentialMissingIgnored(apiKeySet) == FALSE

CredentialMissing(apiKeySet) == ~apiKeySet

\* The catch block of analyzeProductImage lets the exception through.
AnalyzeCatchRethrow(r, error) ==
    [r EXCEPT !.apc = "done", !.raised = TRUE, !.caught = error]

\* The catch block of analyzeProductImage: log, return the sentinel.
AnalyzeCatch(r, error) ==
    [r EXCEPT !.apc = "done", !.out = Sentinel, !.caught = error]

Recent(uri) ==
    lastAnalysis[uri] >= 0 /\ now - lastAnalysis[uri] < CACHE_EXPIRY

\* analyzeProductImage(uri) up to its first await: the credential check, then
\* uploadImageToFirebase up to `await fetch(uri)`.
Analyze(c, uri) ==
    /\ call[c].kind = "none"
    /\ \A d \in Slots : d < c => call[d].kind # "none"
    /\ started < MaxCalls
    /\ LET r == [IdleCall EXCEPT !.kind = "analyze",
                                 !.imageUri = uri,
                                 !.recentAtEntry = Recent(uri)]
       IN  call' = [call EXCEPT ![c] =
                      IF CredentialMissing(hasApiKey)
                      THEN AnalyzeCatch([r EXCEPT !.threwAt = "config"],
                                        "Error: OpenAI API key is missing")
                      ELSE [r EXCEPT !.apc = "fetch", !.uploads = 1]]
    /\ started' = started + 1
    /\ UNCHANGED <<other, now, responseCache, hasApiKey, lastSuccess, lastAnalysis, ticks>>

\* uploadImageToFirebase returned imageUrl: analyzeProductImage builds the
\* messages and calls withRetry with the cache key and the default maxRetries.
AfterUpload(r, url) ==
    withRetryEnter([r EXCEPT !.apc = "model",
                             !.imageUrl = url,
                             !.recentAtLookup = Recent(r.imageUri)],
                   AnalysisCacheKey(r.imageUri), DEFAULT_MAX_RETRIES)

\* uploadImageToFirebase's outer catch re-throws in place of the fallback
UploadFallbackRethrow(r) ==
    AnalyzeCatch([r EXCEPT !.threwAt = "upload"], "Error: upload failed")

\* uploadImageToFirebase's outer catch: fall back to imageToBase64(uri)
UploadFallback(r) == [r EXCEPT !.apc = "base64"]

\* the base64 string returned without the data URI prefix
DataUriBare(uri) == [scheme |-> "", body |-> Base64Of(uri)]

\* `data:image/jpeg;base64,${await imageToBase64(uri)}`
DataUri(uri) == [scheme |-> "data:image/jpeg;base64,", body |-> Base64Of(uri)]

\* `await fetch(uri)` and `await response.blob()` are over.
FetchDone(c, ok) ==
    /\ call[c].apc = "fetch"
    /\ call' = [call EXCEPT ![c] =
                  IF ok THEN [call[c] EXCEPT !.apc = "uploadBytes"]
                        ELSE UploadFallback([call[c] EXCEPT !.remoteFailed = TRUE])]
    /\ UNCHANGED <<other, now, responseCache, hasApiKey, lastSuccess, lastAnalysis, started, ticks>>

\* `await uploadBytes(storageRef, blob)` is over; a failure is logged and
\* re-thrown to the outer catch.
UploadBytesDone(c, ok) ==
    /\ call[c].apc = "uploadBytes"
    /\ call' = [call EXCEPT ![c] =
                  IF ok THEN [call[c] EXCEPT !.apc = "getDownloadURL"]
                        ELSE UploadFallback([call[c] EXCEPT !.remoteFailed = TRUE])]
    /\ UNCHANGED <<other, now, responseCache, hasApiKey, lastSuccess, lastAnalysis, started, ticks>>

\* `await getDownloadURL(snapshot.ref)` is over.
GetDownloadURLDone(c, ok) ==
    /\ call[c].apc = "getDownloadURL"
    /\ call' = [call EXCEPT ![c] =
                  IF ok THEN AfterUpload(call[c],
                                 [scheme |-> "https://", body |-> call[c].imageUri])
                        ELSE UploadFallback([call[c] EXCEPT !.remoteFailed = TRUE])]
    /\ UNCHANGED <<other, now, responseCache, hasApiKey, lastSuccess, lastAnalysis, started, ticks>>

\* imageToBase64's read is over: the data URI is returned, or the read error
\* leaves uploadImageToFirebase and lands in analyzeProductImage's catch.
Base64Done(c, ok) ==
    /\ call[c].apc = "base64"
    /\ call' = [call EXCEPT ![c] =
                  IF ok THEN AfterUpload([call[c] EXCEPT !.fileRead = "ok"],
                                         DataUri(call[c].imageUri))
                        ELSE AnalyzeCatch([call[c] EXCEPT !.threwAt = "upload",
                                                          !.fileRead = "failed"],
                                          "Error: file read failed")]
    /\ UNCHANGED <<other, now, responseCache, hasApiKey, lastSuccess, lastAnalysis, started, ticks>>

\* withRetry is over: its failure goes to the catch block, its result is
\* parsed into the product record.
AnalyzeFinish(c) ==
    /\ call[c].kind = "analyze"
    /\ call[c].apc = "model"
    /\ call[c].pc \in {"returned", "threw"}
    /\ call' = [call EXCEPT ![c] =
                  IF call[c].pc = "threw"
                  THEN AnalyzeCatch([call[c] EXCEPT !.threwAt = "model"],
                                    call[c].error)
                  ELSE IF ParseThrows(call[c].result)
                  THEN AnalyzeCatch([call[c] EXCEPT !.threwAt = "parse"],
                                    "TypeError")
                  ELSE [call[c] EXCEPT !.apc = "done",
                                       !.out = ParseCompletion(call[c].result)]]
    /\ UNCHANGED <<other, now, responseCache, hasApiKey, lastSuccess, lastAnalysis, started, ticks>>

\* The caller of a finished analyzeProductImage call is done with it.
ReleaseAnalyze(c) ==
    /\ call[c].kind = "analyze"
    /\ call[c].apc = "done"
    /\ call' = [call EXCEPT ![c] = IdleCall]
    /\ UNCHANGED <<other, now, responseCache, hasApiKey, lastSuccess, lastAnalysis, started, ticks>>

AllIdle == \A c \in Slots : call[c].kind = "none"

\* withRetry called directly, one call at a time
Next ==
    \/ \E c \in Slots, k \in DirectKeys, m \in MaxRetriesChoices :
          AllIdle /\ Execute(c, k, m)
    \/ \E c \in Slots, v \in OpResults : FnResolve(c, v)
    \/ \E c \in Slots, e \in OpErrors : FnReject(c, e)
    \/ \E c \in Slots : TimerFire(c)
    \/ \E d \in TickSet : Tick(d)
    \/ \E c \in Slots : ReleaseExecute(c)

Spec == Init /\ [][Next]_vars

\* withRetry called directly, by two tasks at a time
NextConc ==
    \/ \E c \in Slots, k \in ConcKeys, m \in MaxRetriesConc :
          started < MaxCallsConc /\ Execute(c, k, m)
    \/ \E c \in Slots, v \in OpResults : FnResolve(c, v)
    \/ \E c \in Slots, e \in OpErrors : FnReject(c, e)
    \/ \E c \in Slots : TimerFire(c)
    \/ \E d \in TickSet : ticks < MaxTicksConc /\ Tick(d)
    \/ \E c \in Slots : ReleaseExecute(c)

SpecConc == Init /\ [][NextConc]_vars

\* maxRetries of the calls whose end is followed: MaxTicks covers the waits of
\* MaxCalls such calls
LiveRetries == {0, 2}

\* the clock reaches the time a pending setTimeout is due
BackoffElapses ==
    /\ \E c \in Slots : call[c].pc = "waiting" /\ now < call[c].wakeAt
    /\ Tick(BACKOFF_CAP)

\* the promise of fn() settles, one way or the other
Settle(c) ==
    \/ \E v \in OpResults : FnResolve(c, v)
    \/ \E e \in OpErrors : FnReject(c, e)

\* withRetry called directly, one call at a time; time passes while a call
\* waits
NextLive ==
    \/ \E c \in Slots, k \in ConcKeys, m \in LiveRetries :
          AllIdle /\ Execute(c, k, m)
    \/ \E c \in Slots : Settle(c)
    \/ \E c \in Slots : TimerFire(c)
    \/ BackoffElapses
    \/ \E c \in Slots : ReleaseExecute(c)

\* every invocation of the operation settles, time passes and a timer that is
\* due fires
FairLive ==
    /\ \A c \in Slots : WF_vars(Settle(c))
    /\ \A c \in Slots : WF_vars(TimerFire(c))
    /\ WF_vars(BackoffElapses)

SpecLive == Init /\ [][NextLive]_vars /\ FairLive

\* analyzeProductImage, one call at a time, with or without the credential
InitAnalyze ==
    /\ now = 0
    /\ responseCache = [k \in CacheKeys |-> NoEntry]
    /\ call = [c \in Slots |-> IdleCall]
    /\ hasApiKey \in BOOLEAN
    /\ lastSuccess = [k \in CacheKeys |-> -1]
    /\ lastAnalysis = [u \in ImageUris |-> -1]
    /\ started = 0
    /\ ticks = 0
    /\ InitStore
    /\ NoExtract
    /\ NoParse
    /\ NoScreen

NextAnalyze ==
    \/ \E c \in Slots, uri \in ImageUris : AllIdle /\ Analyze(c, uri)
    \/ \E c \in Slots, ok \in BOOLEAN : FetchDone(c, ok)
    \/ \E c \in Slots, ok \in BOOLEAN : UploadBytesDone(c, ok)
    \/ \E c \in Slots, ok \in BOOLEAN : GetDownloadURLDone(c, ok)
    \/ \E c \in Slots, ok \in BOOLEAN : Base64Done(c, ok)
    \/ \E c \in Slots, v \in Completions : FnResolve(c, v)
    \/ \E c \in Slots, e \in OpErrors : FnReject(c, e)
    \/ \E c \in Slots : TimerFire(c)
    \/ \E d \in TickSet : Tick(d)
    \/ \E c \in Slots : AnalyzeFinish(c)
    \/ \E c \in Slots : ReleaseAnalyze(c)

SpecAnalyze == InitAnalyze /\ [][NextAnalyze]_vars

\* ------------------------------------------------------------------------
\* The history store: saveScanHistory and getScanHistory
\* ------------------------------------------------------------------------
pipeline == <<openai, extractor, parser, screen>>

RECURSIVE SumSaves(_)
SumSaves(S) ==
    IF S = {} THEN 0
    ELSE LET u == CHOOSE x \in S : TRUE IN saves[u] + SumSaves(S \ {u})

TotalSaves == SumSaves(UserIdArgs)

\* `.sort((a, b) => b.scanDate.getTime() - a.scanDate.getTime())` left out
SortUnsorted(list) == list

\* insertion of e into a list sorted by scanDate descending, after its equals
RECURSIVE InsertDesc(_, _)
InsertDesc(e, list) ==
    IF list = <<>> THEN <<e>>
    ELSE IF e.scanDate > Head(list).scanDate THEN <<e>> \o list
    ELSE <<Head(list)>> \o InsertDesc(e, Tail(list))

\* `.sort((a, b) => b.scanDate.getTime() - a.scanDate.getTime())`
RECURSIVE SortDesc(_)
SortDesc(list) ==
    IF list = <<>> THEN <<>>
    ELSE InsertDesc(list[Len(list)], SortDesc(SubSeq(list, 1, Len(list) - 1)))

\* `query(scanHistoryRef, where('userId', '==', userId))` and getDocs
QueryByUser(userId) == SelectSeq(scanHistory, LAMBDA doc : doc.userId = userId)

\* querySnapshot.docs.map(...): a ProductDetails per document
MapDocs(docs) ==
    [i \in 1..Len(docs) |->
        [recallInfo |-> docs[i].recallInfo,
         scanDate |-> toDate(docs[i].scanDate),
         storedUserId |-> docs[i].userId]]

\* localHistory.map(...): a ProductDetails per local record
MapLocal(items) ==
    [i \in 1..Len(items) |->
        [recallInfo |-> items[i].recallInfo,
         scanDate |-> DateOfISOString(items[i].scanDate),
         storedUserId |-> items[i].userId]]

\* `localHistory = [localScanData]` in place of the push
localHistoryReplace(localHistory, record) == <<record>>

\* `localHistory.push(localScanData)`
localHistoryPush(localHistory, record) == Append(localHistory, record)

\* a catch block of saveScanHistory that lets the exception through
SaveCatchRethrow(r) == [r EXCEPT !.pc = "done", !.raised = TRUE]

\* the catch blocks of saveScanHistory: log, return
SaveCatch(r) == [r EXCEPT !.pc = "done"]

\* the outer catch of getScanHistory lets the exception through
ListCatchRethrow(r) == [r EXCEPT !.pc = "done", !.raised = TRUE]

\* the outer catch of getScanHistory: log, `return []`
ListCatch(r) == [r EXCEPT !.pc = "done", !.result = <<>>]

SavedNow(r) == [userId |-> r.userId, recallInfo |-> r.productDetails.recallInfo,
                stored |-> TRUE]

\* saveScanHistory(userId, productDetails) up to `await addDoc(...)`
Save(c, userId, productDetails) ==
    /\ task[c].op = "none"
    /\ \A d \in Slots : d < c => task[d].op # "none"
    /\ LET r == [IdleTask EXCEPT !.op = "save",
                                 !.userId = userId,
                                 !.productDetails = productDetails,
                                 !.priorSaves = saves[userId]]
       IN  task' = [task EXCEPT ![c] =
                      IF UserIdAbsent(userId)
                      THEN [r EXCEPT !.pc = "done"]
                      ELSE [r EXCEPT !.pc = "addDoc",
                                     !.data = firestoreData(userId, productDetails),
                                     !.addDocCalls = 1]]
    /\ saves' = [saves EXCEPT ![userId] = @ + 1]
    /\ lastSaved' = NoSave
    /\ UNCHANGED <<pipeline, scanHistory, asyncStorage>>

\* the local list written after the remote write, whatever its outcome
AfterAddDocAlsoLocal(r, ok) ==
    [r EXCEPT !.pc = "getItem",
              !.remote = IF ok THEN "ok" ELSE "failed",
              !.getItemCalls = 1]

\* after `await addDoc(...)`: the try block is done, or its catch starts the
\* local fallback
AfterAddDoc(r, ok) ==
    IF ok
    THEN [r EXCEPT !.pc = "done", !.remote = "ok"]
    ELSE [r EXCEPT !.pc = "getItem", !.remote = "failed", !.getItemCalls = 1]

\* `await addDoc(collection(db, 'scanHistory'), firestoreData)` is over: the
\* document is in the collection, or the inner catch starts the local
\* fallback with `await AsyncStorage.getItem(...)`.
AddDocDone(c, ok) ==
    /\ task[c].op = "save"
    /\ task[c].pc = "addDoc"
    /\ task' = [task EXCEPT ![c] = AfterAddDoc(task[c], ok)]
    /\ IF ok
       THEN /\ scanHistory' = Append(scanHistory, task[c].data)
            /\ lastSaved' = SavedNow(task[c])
       ELSE UNCHANGED <<scanHistory, lastSaved>>
    /\ UNCHANGED <<pipeline, asyncStorage, saves>>

\* saveScanHistory's `await AsyncStorage.getItem(...)` is over: the list is
\* parsed, the record pushed, and `await AsyncStorage.setItem(...)` started
\* with the new string; a read error is logged.
GetItemDone(c, ok) ==
    /\ task[c].op = "save"
    /\ task[c].pc = "getItem"
    /\ LET localHistoryStr == asyncStorage[LocalKey(task[c].userId)]
           localHistory == IF localHistoryStr.present
                           THEN JSONparse(localHistoryStr) ELSE <<>>
           record == localScanData(task[c].data, task[c].productDetails, now)
       IN  task' = [task EXCEPT ![c] =
                      IF ok
                      THEN [task[c] EXCEPT
                              !.pc = "setItem",
                              !.localRead = "ok",
                              !.pending = JSONstringify(
                                            localHistoryPush(localHistory, record)),
                              !.setItemCalls = 1]
                      ELSE SaveCatch([task[c] EXCEPT !.localRead = "failed"])]
    /\ UNCHANGED <<pipeline, scanHistory, asyncStorage, saves, lastSaved>>

\* `await AsyncStorage.setItem(...)` is over: the string is stored, or the
\* write error is logged.
SetItemDone(c, ok) ==
    /\ task[c].op = "save"
    /\ task[c].pc = "setItem"
    /\ IF ok
       THEN /\ asyncStorage' = [asyncStorage EXCEPT
                                  ![LocalKey(task[c].userId)] = task[c].pending]
            /\ task' = [task EXCEPT ![c].pc = "done", ![c].localWrite = "ok"]
            /\ lastSaved' = SavedNow(task[c])
       ELSE /\ task' = [task EXCEPT ![c] =
                          SaveCatch([task[c] EXCEPT !.localWrite = "failed"])]
            /\ UNCHANGED <<asyncStorage, lastSaved>>
    /\ UNCHANGED <<pipeline, scanHistory, saves>>

\* getScanHistory(userId) up to `await getDocs(q)`
List(c, userId) ==
    /\ task[c].op = "none"
    /\ \A d \in Slots : d < c => task[d].op # "none"
    /\ task' = [task EXCEPT ![c] =
                  [IdleTask EXCEPT !.op = "list",
                                   !.pc = "getDocs",
                                   !.userId = userId,
                                   !.priorSaves = saves[userId]]]
    /\ UNCHANGED <<pipeline, scanHistory, asyncStorage, saves, lastSaved>>

\* the documents of the query and the local list of the user, in one list
RemoteResultMerged(userId) ==
    SortDesc(MapDocs(QueryByUser(userId))
               \o MapLocal(asyncStorage[LocalKey(userId)].json))

\* what getScanHistory returns when the query succeeded
RemoteResult(userId) == SortDesc(MapDocs(QueryByUser(userId)))

\* `await getDocs(q)` is over: the documents are mapped, sorted and returned,
\* or the inner catch starts `await AsyncStorage.getItem(...)`.
GetDocsDone(c, ok) ==
    /\ task[c].op = "list"
    /\ task[c].pc = "getDocs"
    /\ task' = [task EXCEPT ![c] =
                  IF ok
                  THEN [task[c] EXCEPT
                          !.pc = "done",
                          !.remote = "ok",
                          !.result = RemoteResult(task[c].userId)]
                  ELSE [task[c] EXCEPT !.pc = "getItem",
                                       !.remote = "failed",
                                       !.getItemCalls = 1]]
    /\ UNCHANGED <<pipeline, scanHistory, asyncStorage, saves, lastSaved>>

\* getScanHistory's `await AsyncStorage.getItem(...)` is over: [] for no
\* string, else the parsed list mapped and sorted; a read error reaches the
\* outer catch.
ListGetItemDone(c, ok) ==
    /\ task[c].op = "list"
    /\ task[c].pc = "getItem"
    /\ LET localHistoryStr == asyncStorage[LocalKey(task[c].userId)]
       IN  task' = [task EXCEPT ![c] =
                      IF ~ok
                      THEN ListCatch([task[c] EXCEPT !.localRead = "failed"])
                      ELSE IF ~localHistoryStr.present
                      THEN [task[c] EXCEPT !.pc = "done",
                                           !.localRead = "ok",
                                           !.result = <<>>]
                      ELSE [task[c] EXCEPT
                              !.pc = "done",
                              !.localRead = "ok",
                              !.result = SortDesc(MapLocal(JSONparse(localHistoryStr)))]]
    /\ UNCHANGED <<pipeline, scanHistory, asyncStorage, saves, lastSaved>>

\* The caller of a finished history call is done with it.
ReleaseTask(c) ==
    /\ task[c].op # "none"
    /\ task[c].pc = "done"
    /\ task' = [task EXCEPT ![c] = IdleTask]
    /\ UNCHANGED <<pipeline, scanHistory, asyncStorage, saves, lastSaved>>

AllTasksIdle == \A c \in Slots : task[c].op = "none"

\* the history store, one call at a time
NextHistory ==
    \/ \E c \in Slots, u \in UserIdArgs, p \in ProductDetails :
          AllTasksIdle /\ TotalSaves < MaxSaves /\ Save(c, u, p)
    \/ \E c \in Slots, ok \in BOOLEAN : AddDocDone(c, ok)
    \/ \E c \in Slots, ok \in BOOLEAN : GetItemDone(c, ok)
    \/ \E c \in Slots, ok \in BOOLEAN : SetItemDone(c, ok)
    \/ \E c \in Slots, u \in UserIdArgs : AllTasksIdle /\ List(c, u)
    \/ \E c \in Slots, ok \in BOOLEAN : GetDocsDone(c, ok)
    \/ \E c \in Slots, ok \in BOOLEAN : ListGetItemDone(c, ok)
    \/ \E c \in Slots : ReleaseTask(c)

SpecHistory == Init /\ [][NextHistory]_vars

\* saveScanHistory, by two tasks at a time
NextHistoryConc ==
    \/ \E c \in Slots, u \in UserIds, p \in ConcDetails :
          TotalSaves < MaxSavesConc /\ Save(c, u, p)
    \/ \E c \in Slots, ok \in BOOLEAN : AddDocDone(c, ok)
    \/ \E c \in Slots, ok \in BOOLEAN : GetItemDone(c, ok)
    \/ \E c \in Slots, ok \in BOOLEAN : SetItemDone(c, ok)
    \/ \E c \in Slots : ReleaseTask(c)

SpecHistoryConc == Init /\ [][NextHistoryConc]_vars

\* ------------------------------------------------------------------------
\* extractFromResponse: strings, regular expressions
\* ------------------------------------------------------------------------
\* A string is the sequence of its characters.
\* the lower-case letter of each upper-case letter
LowerMap ==
    [ A |-> "a", B |-> "b", C |-> "c", D |-> "d", E |-> "e", F |-> "f",
      G |-> "g", H |-> "h", I |-> "i", J |-> "j", K |-> "k", L |-> "l",
      M |-> "m", N |-> "n", O |-> "o", P |-> "p", Q |-> "q", R |-> "r",
      S |-> "s", T |-> "t", U |-> "u", V |-> "v", W |-> "w", X |-> "x",
      Y |-> "y", Z |-> "z" ]

Digits == {"0", "1", "2", "3", "4", "5", "6", "7", "8", "9"}

\* the characters of \s that occur in the texts
Spaces == {" ", "\t", "\n", "\r"}

LowerChar(ch) == IF ch \in DOMAIN LowerMap THEN LowerMap[ch] ELSE ch

\* String.prototype.toLowerCase
toLowerCase(str) == [i \in 1..Len(str) |-> LowerChar(str[i])]

\* String.prototype.includes
includes(str, sub) ==
    \E i \in 1..(Len(str) - Len(sub) + 1) : SubSeq(str, i, i + Len(sub) - 1) = sub

\* String.prototype.trim
RECURSIVE trimStart(_)
trimStart(str) ==
    IF str # <<>> /\ Head(str) \in Spaces THEN trimStart(Tail(str)) ELSE str

RECURSIVE trimEnd(_)
trimEnd(str) ==
    IF str # <<>> /\ str[Len(str)] \in Spaces
    THEN trimEnd(SubSeq(str, 1, Len(str) - 1)) ELSE str

\* a capture returned as matched
trimNone(str) == str

\* String.prototype.trim
trim(str) == trimEnd(trimStart(str))

\* the character U+2022
Bullet == "bullet"

\* the character classes of the patterns: \s, \d, [^\n], [^<], [^\|\n],
\* [\u2022\-\*\d+\.] and [\u2022\-\*]
\* a to z
Letters == {LowerMap[u] : u \in DOMAIN LowerMap}

InClass(ch, class) ==
    CASE class = "space" -> ch \in Spaces
      [] class = "digit" -> ch \in Digits
      [] class = "notNewline" -> ch # "\n"
      [] class = "notLt" -> ch # "<"
      [] class = "notPipeNewline" -> ch \notin {"|", "\n"}
      [] class = "bulletDigit" -> ch \in Digits \cup {Bullet, "-", "*", "+", "."}
      [] class = "bullet" -> ch \in {Bullet, "-", "*"}
      [] class = "any" -> TRUE
      [] class = "notNewlineDotComma" -> ch \notin {"\n", ".", ","}
      [] class = "letter" -> ch \in Letters
      [] class = "upper" -> ch \in DOMAIN LowerMap
      [] class = "alnumSpace" -> ch \in DOMAIN LowerMap \cup Letters \cup Digits \cup {" "}

\* regular expressions under the i flag: literal (kept in lower case), character class,
\* greedy star, optional, sequence, alternation, capture group, ^ under the m flag
Lit(s) == [t |-> "lit", s |-> toLowerCase(s)]

Cls(class) == [t |-> "cls", c |-> class]

Star(n) == [t |-> "star", n |-> n]

Opt(n) == [t |-> "opt", n |-> n]

Cat(ns) == [t |-> "cat", ns |-> ns]

Alt(ns) == [t |-> "alt", ns |-> ns]

Cap(n) == [t |-> "cap", n |-> n]

Bol == [t |-> "bol"]

Plus(n) == Cat(<<n, Star(n)>>)

\* n+?, (?=n) and $ without the m flag
LazyPlus(n) == [t |-> "lazy", n |-> n]

Ahead(n) == [t |-> "ahead", n |-> n]

Eos == [t |-> "eos"]

\* The backtracking matcher: Ends(n, str, pos, cap) is the list of the ways
\* n matches str at pos, in the order the engine tries them; each is the
\* position after the match and the capture group so far.  Under the i
\* flag the subject is compared in lower case; no class tells the cases apart.
RECURSIVE Ends(_, _, _, _)
RECURSIVE EndsSeq(_, _, _, _, _)
RECURSIVE EndsAlt(_, _, _, _, _)
RECURSIVE EndsStar(_, _, _, _)
RECURSIVE Continue(_, _, _, _)
RECURSIVE EndsEach(_, _, _, _, _)
RECURSIVE ContinueStar(_, _, _, _)
RECURSIVE EndsLazy(_, _, _, _)
RECURSIVE ContinueLazy(_, _, _, _)

\* how many characters of class c str holds in a row from pos on
RunLength(c, str, pos) ==
    IF pos > Len(str) \/ ~InClass(str[pos], c) THEN 0
    ELSE LET stops == {j \in pos..(Len(str) + 1) :
                          j = Len(str) + 1 \/ ~InClass(str[j], c)}
         IN  (CHOOSE j \in stops : \A k \in stops : j <= k) - pos

\* the repetitions of a run of k characters at pos, from the longest to the
\* empty one
Shorter(k, pos, cap) == [i \in 1..(k + 1) |-> [end |-> pos + k + 1 - i, cap |-> cap]]

\* the repetitions of a run of k characters at pos, from one character to
\* the longest
Longer(k, pos, cap) == [i \in 1..k |-> [end |-> pos + i, cap |-> cap]]

\* str is the subject in lower case, s a literal in lower case
LitMatches(s, str, pos) ==
    /\ pos + Len(s) - 1 <= Len(str)
    /\ \A i \in 1..Len(s) : str[pos + i - 1] = s[i]

Ends(n, str, pos, cap) ==
    CASE n.t = "lit" ->
            IF LitMatches(n.s, str, pos)
            THEN <<[end |-> pos + Len(n.s), cap |-> cap]>> ELSE <<>>
      [] n.t = "cls" ->
            IF pos <= Len(str) /\ InClass(str[pos], n.c)
            THEN <<[end |-> pos + 1, cap |-> cap]>> ELSE <<>>
      [] n.t = "bol" ->
            IF pos = 1 \/ str[pos - 1] = "\n"
            THEN <<[end |-> pos, cap |-> cap]>> ELSE <<>>
      [] n.t = "cat" -> EndsSeq(n.ns, 1, str, pos, cap)
      [] n.t = "alt" -> EndsAlt(n.ns, 1, str, pos, cap)
      [] n.t = "opt" -> Ends(n.n, str, pos, cap) \o <<[end |-> pos, cap |-> cap]>>
      [] n.t = "star" -> EndsStar(n.n, str, pos, cap)
      [] n.t = "lazy" -> EndsLazy(n.n, str, pos, cap)
      [] n.t = "ahead" ->
            IF Len(Ends(n.n, str, pos, cap)) > 0
            THEN <<[end |-> pos, cap |-> cap]>> ELSE <<>>
      [] n.t = "eos" ->
            IF pos = Len(str) + 1 THEN <<[end |-> pos, cap |-> cap]>> ELSE <<>>
      [] n.t = "cap" ->
            LET inner == Ends(n.n, str, pos, cap)
            IN  [i \in 1..Len(inner) |->
                    [end |-> inner[i].end, cap |-> <<pos, inner[i].end>>]]

\* the matches of n after each of the matches rs[lo..hi] of what came
\* before, in the order the engine tries them
EndsEach(n, str, rs, lo, hi) ==
    IF lo > hi THEN <<>>
    ELSE IF lo = hi THEN Ends(n, str, rs[lo].end, rs[lo].cap)
    ELSE EndsEach(n, str, rs, lo, (lo + hi) \div 2)
            \o EndsEach(n, str, rs, (lo + hi) \div 2 + 1, hi)

\* ns[i..] after the matches rs of what came before
Continue(ns, i, str, rs) ==
    IF i > Len(ns) \/ rs = <<>> THEN rs
    ELSE Continue(ns, i + 1, str, EndsEach(ns[i], str, rs, 1, Len(rs)))

EndsSeq(ns, i, str, pos, cap) == Continue(ns, i, str, <<[end |-> pos, cap |-> cap]>>)

EndsAlt(ns, i, str, pos, cap) ==
    IF i > Len(ns) THEN <<>>
    ELSE Ends(ns[i], str, pos, cap) \o EndsAlt(ns, i + 1, str, pos, cap)

ContinueStar(n, str, rs, j) ==
    IF j > Len(rs) THEN <<>>
    ELSE EndsStar(n, str, rs[j].end, rs[j].cap) \o ContinueStar(n, str, rs, j + 1)

\* greedy: one more repetition is tried before stopping here.  The
\* repetitions of a character class are the run of its characters at pos,
\* tried from the longest to the empty one.
EndsStar(n, str, pos, cap) ==
    IF n.t = "cls"
    THEN Shorter(RunLength(n.c, str, pos), pos, cap)
    ELSE LET once == SelectSeq(Ends(n, str, pos, cap), LAMBDA r : r.end > pos)
         IN  ContinueStar(n, str, once, 1) \o <<[end |-> pos, cap |-> cap]>>

ContinueLazy(n, str, rs, j) ==
    IF j > Len(rs) THEN <<>>
    ELSE <<rs[j]>> \o EndsLazy(n, str, rs[j].end, rs[j].cap)
                  \o ContinueLazy(n, str, rs, j + 1)

\* lazy: stopping after a repetition is tried before one more repetition;
\* for a character class, the run at pos from one character to the longest
EndsLazy(n, str, pos, cap) ==
    IF n.t = "cls"
    THEN Longer(RunLength(n.c, str, pos), pos, cap)
    ELSE LET once == SelectSeq(Ends(n, str, pos, cap), LAMBDA r : r.end > pos)
         IN  ContinueLazy(n, str, once, 1)

NoMatch == [found |-> FALSE, whole |-> <<>>, group |-> <<>>]

\* match[0] and match[1] of the match at position at: the first of the
\* ways rs the engine tries there
matchOf(str, at, rs) ==
    IF Len(rs) = 0 THEN NoMatch
    ELSE [found |-> TRUE,
          whole |-> SubSeq(str, at, rs[1].end - 1),
          group |-> SubSeq(str, rs[1].cap[1], rs[1].cap[2] - 1)]

\* n matches low at position at
MatchesAt(low, n, at) == Len(Ends(n, low, at, <<1, 1>>)) > 0

\* the first position from start on at which n matches; there is one
leftmost(low, n, start) ==
    CHOOSE at \in start..(Len(low) + 1) :
        /\ MatchesAt(low, n, at)
        /\ \A before \in start..(at - 1) : ~MatchesAt(low, n, before)

\* the match at position at
matchAt(str, low, n, at) == matchOf(str, at, Ends(n, low, at, <<1, 1>>))

\* String.prototype.match without the g flag: the leftmost match, the
\* positions from start on being tried in turn
matchFrom(str, low, n, start) ==
    IF \E at \in start..(Len(low) + 1) : MatchesAt(low, n, at)
    THEN matchAt(str, low, n, leftmost(low, n, start))
    ELSE NoMatch

match(str, n) == matchFrom(str, toLowerCase(str), n, 1)

\* text.match(pattern) for a pattern without the i flag
matchCase(str, n) == matchFrom(str, str, n, 1)

\* ------------------------------------------------------------------------
\* extractFromResponse
\* ------------------------------------------------------------------------
SENTENCE_MAX == 100

WS == Star(Cls("space"))

\* ([^\n]+)
Rest == Cap(Plus(Cls("notNewline")))

\* the nine structural patterns of a key, in the order of the array
patterns(key) ==
    << Cat(<<Lit(key), WS, Lit(<<":">>), WS, Rest>>),
       Cat(<<Lit(key), WS, Lit(<<"-">>), WS, Rest>>),
       Cat(<<Lit(key), WS, Lit(<<"=">>), WS, Rest>>),
       Cat(<<Lit(key), WS, Lit(<<"c", "o", "n", "t", "e", "n", "t">>), WS, Lit(<<":">>), WS, Rest>>),
       Cat(<<Lit(key), WS, Lit(<<"i", "n", "f", "o", "r", "m", "a", "t", "i", "o", "n">>), WS, Lit(<<":">>), WS, Rest>>),
       Cat(<<Lit(<<"*", "*">>), Lit(key), Lit(<<"*", "*">>), WS, Lit(<<":">>), WS, Rest>>),
       Cat(<<Lit(<<"<">>), Lit(key), Lit(<<">">>), Cap(Plus(Cls("notLt"))),
             Lit(<<"<", "/">>), Lit(key), Lit(<<">">>)>>),
       Cat(<<Bol, WS, Lit(key), WS, Lit(<<":">>), WS, Rest>>),
       Cat(<<Lit(<<"|">>), WS, Lit(key), WS, Lit(<<"|">>), WS,
             Cap(Plus(Cls("notPipeNewline"))), WS, Lit(<<"|">>)>>) >>

\* the three bullet and numbered-list patterns of a key
bulletPatterns(key) ==
    << Cat(<<Plus(Cls("bulletDigit")), WS, Lit(key), WS, Opt(Lit(<<":">>)), WS, Rest>>),
       Cat(<<Cls("bullet"), WS, Lit(key), WS, Lit(<<":">>), WS, Rest>>),
       Cat(<<Plus(Cls("digit")), Lit(<<".">>), WS, Lit(key), WS, Lit(<<":">>), WS, Rest>>) >>

\* \d+(?:\.\d+)?
Number == Cat(<<Plus(Cls("digit")), Opt(Cat(<<Lit(<<".">>), Plus(Cls("digit"))>>))>>)

\* the three number-with-unit patterns of the sentence scan
numberWithUnit ==
    << Cat(<<Number, WS,
             Alt(<<Lit(<<"g">>), Lit(<<"m", "g">>), Lit(<<"k", "c", "a", "l">>), Lit(<<"c", "a", "l", "o", "r", "i", "e", "s">>), Lit(<<"c", "a", "l">>)>>),
             Opt(Lit(<<"/", "s", "e", "r", "v", "i", "n", "g">>))>>),
       Cat(<<Number, WS,
             Alt(<<Lit(<<"g", "r", "a", "m", "s">>), Lit(<<"g", "r", "a", "m">>), Lit(<<"m", "i", "l", "l", "i", "g", "r", "a", "m", "s">>), Lit(<<"m", "i", "l", "l", "i", "g", "r", "a", "m">>)>>)>>),
       Cat(<<Number, WS, Alt(<<Lit(<<"%">>), Lit(<<"p", "e", "r", "c", "e", "n", "t">>)>>)>>) >>

NullValue == [isNull |-> TRUE, value |-> <<>>]

Value(str) == [isNull |-> FALSE, value |-> str]

\* `if (match && match[1].trim()) return match[1].trim()` over a pattern array
Captures(m) == m.found /\ trim(m.group) # <<>>

firstCapture(txt, ps, i) ==
    LET capturing == {j \in i..Len(ps) : Captures(match(txt, ps[j]))}
    IN  IF capturing = {} THEN NullValue
        ELSE Value(trim(match(txt, ps[CHOOSE j \in capturing :
                                          \A later \in capturing : j <= later]).group))

\* text.split(/\.(?:\s+|\n)/)
RECURSIVE skipSpaces(_, _)
skipSpaces(str, pos) ==
    IF pos <= Len(str) /\ str[pos] \in Spaces THEN skipSpaces(str, pos + 1) ELSE pos

RECURSIVE split(_)
split(str) ==
    LET dots == {i \in 1..(Len(str) - 1) : str[i] = "." /\ str[i + 1] \in Spaces}
    IN  IF dots = {} THEN <<str>>
        ELSE LET d == CHOOSE i \in dots : \A j \in dots : i <= j
             IN  <<SubSeq(str, 1, d - 1)>>
                   \o split(SubSeq(str, skipSpaces(str, d + 1), Len(str)))

\* the first of the three matches that is not null
RECURSIVE firstNumberWithUnit(_, _)
firstNumberWithUnit(sentence, i) ==
    IF i > Len(numberWithUnit) THEN NullValue
    ELSE LET m == match(sentence, numberWithUnit[i])
         IN  IF m.found /\ m.whole # <<>>
             THEN Value(trim(m.whole))
             ELSE firstNumberWithUnit(sentence, i + 1)

\* the loop over the sentences that hold the key
RECURSIVE sentenceScan(_, _, _)
sentenceScan(sentences, key, i) ==
    IF i > Len(sentences) THEN NullValue
    ELSE IF ~includes(toLowerCase(sentences[i]), toLowerCase(key))
    THEN sentenceScan(sentences, key, i + 1)
    ELSE LET n == firstNumberWithUnit(sentences[i], 1)
         IN  IF ~n.isNull THEN n
             ELSE IF Len(sentences[i]) < SENTENCE_MAX THEN Value(trim(sentences[i]))
             ELSE sentenceScan(sentences, key, i + 1)

\* one round of `for (const key of keys)`
extractForKey(txt, key) ==
    LET structural == firstCapture(txt, patterns(key), 1)
        bullets == firstCapture(txt, bulletPatterns(key), 1)
    IN  IF ~structural.isNull THEN structural
        ELSE IF ~bullets.isNull THEN bullets
        ELSE IF includes(toLowerCase(txt), toLowerCase(key))
        THEN sentenceScan(split(txt), key, 1)
        ELSE NullValue

RECURSIVE extractFromKeys(_, _, _)
extractFromKeys(txt, ks, i) ==
    IF i > Len(ks) THEN NullValue
    ELSE LET r == extractForKey(txt, ks[i])
         IN  IF ~r.isNull THEN r ELSE extractFromKeys(txt, ks, i + 1)

\* extractFromResponse(text, primaryKey, ...alternateKeys)
extractFromResponse(txt, ks) == extractFromKeys(txt, ks, 1)

\* ------------------------------------------------------------------------
\* extractFromResponse applied to the texts of the model
\* ------------------------------------------------------------------------
MaxLines == 2

\* "Calories: 250kcal"
LineKeyValue ==
    <<"C", "a", "l", "o", "r", "i", "e", "s", ":", " ", "2", "5", "0", "k", "c", "a", "l">>

\* "no data here"
LineNoData ==
    <<"n", "o", " ", "d", "a", "t", "a", " ", "h", "e", "r", "e">>

\* "Calories:"
LineKeyOnly ==
    <<"C", "a", "l", "o", "r", "i", "e", "s", ":">>

\* "Calories:  "
LineKeyBlank ==
    <<"C", "a", "l", "o", "r", "i", "e", "s", ":", " ", " ">>

\* "Energy - 100 kJ"
LineAltDash ==
    <<"E", "n", "e", "r", "g", "y", " ", "-", " ", "1", "0", "0", " ", "k", "J">>

\* "- Calories 90"
LineBullet ==
    <<"-", " ", "C", "a", "l", "o", "r", "i", "e", "s", " ", "9", "0">>

\* "It has 80 calories. Enjoy"
LineSentence ==
    <<"I", "t", " ", "h", "a", "s", " ", "8", "0", " ", "c", "a", "l", "o", "r", "i", "e", "s", ".", " ", "E", "n", "j", "o", "y">>

\* "The calories are 80 kcal. Enjoy"
LineUnit ==
    <<"T", "h", "e", " ", "c", "a", "l", "o", "r", "i", "e", "s", " ", "a", "r", "e", " ", "8", "0", " ", "k", "c", "a", "l", ".", " ", "E", "n", "j", "o", "y">>

\* "Low calories"
LineProse ==
    <<"L", "o", "w", " ", "c", "a", "l", "o", "r", "i", "e", "s">>

\* "<calories>70</calories>"
LineTag ==
    <<"<", "c", "a", "l", "o", "r", "i", "e", "s", ">", "7", "0", "<", "/", "c", "a", "l", "o", "r", "i", "e", "s", ">">>

\* "| Calories | 60 |"
LineTable ==
    <<"|", " ", "C", "a", "l", "o", "r", "i", "e", "s", " ", "|", " ", "6", "0", " ", "|">>

\* "**Calories**: 50"
LineEmphasis ==
    <<"*", "*", "C", "a", "l", "o", "r", "i", "e", "s", "*", "*", ":", " ", "5", "0">>

\* "Calories content: 40"
LineContent ==
    <<"C", "a", "l", "o", "r", "i", "e", "s", " ", "c", "o", "n", "t", "e", "n", "t", ":", " ", "4", "0">>

KeyCalories == <<"c", "a", "l", "o", "r", "i", "e", "s">>

KeyEnergy == <<"e", "n", "e", "r", "g", "y">>

\* "calories xxx...": a line of more than SENTENCE_MAX characters with the key
\* and no digit
LineLong == KeyCalories \o <<" ">> \o [i \in 1..SENTENCE_MAX |-> "x"]

Lines ==
    {LineKeyValue, LineNoData, LineKeyOnly, LineKeyBlank,
     LineAltDash, LineBullet, LineSentence, LineProse,
     LineTag, LineTable, LineEmphasis, LineContent,
     LineUnit}

\* [primaryKey, ...alternateKeys]
KeyLists == {<<KeyCalories>>, <<KeyCalories, KeyEnergy>>}

RECURSIVE JoinLines(_)
JoinLines(ls) ==
    IF Len(ls) = 1 THEN ls[1]
    ELSE ls[1] \o <<"\n">> \o JoinLines(Tail(ls))

\* the responses with the long line: alone, and after each of the lines
LongTexts == {LineLong} \cup {JoinLines(<<l, LineLong>>) : l \in Lines}

\* the responses: up to MaxLines lines, and the ones with the long line
Texts ==
    {JoinLines(ls) : ls \in UNION {[1..n -> Lines] : n \in 1..MaxLines}}
        \cup LongTexts

InitExtract ==
    /\ now = 0
    /\ responseCache = [k \in CacheKeys |-> NoEntry]
    /\ call = [c \in Slots |-> IdleCall]
    /\ hasApiKey = TRUE
    /\ lastSuccess = [k \in CacheKeys |-> -1]
    /\ lastAnalysis = [u \in ImageUris |-> -1]
    /\ started = 0
    /\ ticks = 0
    /\ InitStore
    /\ text \in Texts
    /\ keys \in KeyLists
    /\ extracted = NotExtracted
    /\ NoParse
    /\ NoScreen

\* extractFromResponse(text, ...keys) is called and returns
Extract ==
    /\ ~extracted.done
    /\ LET r == extractFromResponse(text, keys)
       IN  extracted' = [done |-> TRUE, isNull |-> r.isNull, value |-> r.value]
    /\ UNCHANGED <<openai, store, parser, screen, text, keys>>

NextExtract == Extract

SpecExtract == InitExtract /\ [][NextExtract]_vars

\* ------------------------------------------------------------------------
\* The parsing steps of analyzeProductImage
\* ------------------------------------------------------------------------
NameKeys ==
    <<<<"p", "r", "o", "d", "u", "c", "t", " ", "n", "a", "m", "e">>,
       <<"p", "r", "o", "d", "u", "c", "t">>,
       <<"n", "a", "m", "e">>,
       <<"b", "r", "a", "n", "d">>>>

CaloriesKeys ==
    <<<<"c", "a", "l", "o", "r", "i", "e", "s">>,
       <<"c", "a", "l", "o", "r", "i", "c", " ", "c", "o", "n", "t", "e", "n", "t">>,
       <<"e", "n", "e", "r", "g", "y">>>>

FatsKeys ==
    <<<<"f", "a", "t", "s">>,
       <<"f", "a", "t">>,
       <<"f", "a", "t", " ", "c", "o", "n", "t", "e", "n", "t">>,
       <<"t", "o", "t", "a", "l", " ", "f", "a", "t">>>>

CarbsKeys ==
    <<<<"c", "a", "r", "b", "o", "h", "y", "d", "r", "a", "t", "e", "s">>,
       <<"c", "a", "r", "b", "s">>,
       <<"c", "a", "r", "b">>,
       <<"t", "o", "t", "a", "l", " ", "c", "a", "r", "b", "o", "h", "y", "d", "r", "a", "t", "e", "s">>>>

ProteinsKeys ==
    <<<<"p", "r", "o", "t", "e", "i", "n", "s">>,
       <<"p", "r", "o", "t", "e", "i", "n">>,
       <<"p", "r", "o", "t", "e", "i", "n", " ", "c", "o", "n", "t", "e", "n", "t">>>>

DescriptionKeys ==
    <<<<"d", "e", "s", "c", "r", "i", "p", "t", "i", "o", "n">>,
       <<"p", "r", "o", "d", "u", "c", "t", " ", "d", "e", "s", "c", "r", "i", "p", "t", "i", "o", "n">>,
       <<"a", "b", "o", "u", "t", " ", "t", "h", "i", "s", " ", "p", "r", "o", "d", "u", "c", "t">>,
       <<"o", "v", "e", "r", "v", "i", "e", "w">>>>

UnknownProduct == <<"U", "n", "k", "n", "o", "w", "n", " ", "P", "r", "o", "d", "u", "c", "t">>

NotAvailable == <<"N", "o", "t", " ", "a", "v", "a", "i", "l", "a", "b", "l", "e">>

SentinelDescription ==
    <<"U", "n", "a", "b", "l", "e", " ", "t", "o", " ", "a", "n", "a", "l", "y", "z", "e", " ", "t", "h", "e", " ", "p", "r", "o", "d", "u", "c", "t", " ", "i", "m", "a", "g", "e", " ", "a", "t", " ", "t", "h", "i", "s", " ", "t", "i", "m", "e", ".", " ", "P", "l", "e", "a", "s", "e", " ", "t", "r", "y", " ", "a", "g", "a", "i", "n", " ", "l", "a", "t", "e", "r", ".">>

\* the six namePatterns; the last one has no i flag
namePatterns ==
    << [cased |-> FALSE,
        n |-> Cat(<<Lit(<<"P", "r", "o", "d", "u", "c", "t">>), Opt(Cat(<<Opt(Cls("space")), Lit(<<"N", "a", "m", "e">>)>>)),
                    Lit(<<":">>), WS, Rest>>)],
       [cased |-> FALSE,
        n |-> Cat(<<Lit(<<"T", "h", "i", "s", " ", "i", "s", " ">>), Alt(<<Lit(<<"a">>), Lit(<<"a", "n">>)>>), Plus(Cls("space")), Cap(Plus(Cls("notNewlineDotComma")))>>)],
       [cased |-> FALSE,
        n |-> Cat(<<Lit(<<"I", " ", "c", "a", "n", " ", "s", "e", "e", " ">>), Alt(<<Lit(<<"a">>), Lit(<<"a", "n">>)>>), Plus(Cls("space")), Cap(Plus(Cls("notNewlineDotComma")))>>)],
       [cased |-> FALSE,
        n |-> Cat(<<Lit(<<"T", "h", "e", " ", "i", "m", "a", "g", "e", " ", "s", "h", "o", "w", "s", " ">>), Alt(<<Lit(<<"a">>), Lit(<<"a", "n">>)>>), Plus(Cls("space")), Cap(Plus(Cls("notNewlineDotComma")))>>)],
       [cased |-> FALSE,
        n |-> Cat(<<Lit(<<"T", "h", "i", "s", " ">>), Alt(<<Lit(<<"i", "s">>), Lit(<<"a", "p", "p", "e", "a", "r", "s", " ", "t", "o", " ", "b", "e">>)>>), Lit(<<" ">>), Alt(<<Lit(<<"a">>), Lit(<<"a", "n">>)>>), Plus(Cls("space")), Cap(Plus(Cls("notNewlineDotComma")))>>)],
       [cased |-> TRUE,
        n |-> Cap(Cat(<<Cls("upper"), Plus(Cls("alnumSpace")), Lit(<<" ">>),
                        Alt(<<Lit(<<"c", "e", "r", "e", "a", "l">>), Lit(<<"c", "h", "i", "p", "s">>), Lit(<<"s", "n", "a", "c", "k", "s">>), Lit(<<"d", "r", "i", "n", "k">>), Lit(<<"b", "e", "v", "e", "r", "a", "g", "e">>), Lit(<<"f", "o", "o", "d">>), Lit(<<"p", "r", "o", "d", "u", "c", "t">>)>>)>>))] >>

\* `for (const pattern of namePatterns)`: the first capture that is not blank
nameMatch(responseText, p) ==
    IF p.cased THEN matchCase(responseText, p.n) ELSE match(responseText, p.n)

firstNameCapture(responseText, i) ==
    LET capturing == {j \in i..Len(namePatterns) :
                         Captures(nameMatch(responseText, namePatterns[j]))}
    IN  IF capturing = {} THEN NullValue
        ELSE Value(trim(nameMatch(responseText,
                                  namePatterns[CHOOSE j \in capturing :
                                                   \A later \in capturing : j <= later]).group))

\* responseText.split(/[.!?]/)[0]
firstSentence(responseText) ==
    LET marks == {i \in 1..Len(responseText) : responseText[i] \in {".", "!", "?"}}
    IN  IF marks = {} THEN responseText
        ELSE SubSeq(responseText, 1, (CHOOSE i \in marks : \A j \in marks : i <= j) - 1)

\* the last resort: a first sentence of more than 10 characters, trimmed
lastResortName(responseText) ==
    IF Len(firstSentence(responseText)) > 10
    THEN trim(firstSentence(responseText))
    ELSE UnknownProduct

\* productName: what extractFromResponse found, then namePatterns, then the
\* last resort
productNameOf(extractedName, responseText) ==
    LET fallback == firstNameCapture(responseText, 1)
    IN  IF ~extractedName.isNull THEN extractedName.value
        ELSE IF ~fallback.isNull THEN fallback.value
        ELSE lastResortName(responseText)

\* (?=\n\n|\n[A-Z]|Nutritional Information:|$), under the i flag
ParagraphEnd ==
    Ahead(Alt(<<Lit(<<"\n", "\n">>), Cat(<<Lit(<<"\n">>), Cls("letter")>>), Lit(<<"N", "u", "t", "r", "i", "t", "i", "o", "n", "a", "l", " ", "I", "n", "f", "o", "r", "m", "a", "t", "i", "o", "n", ":">>), Eos>>))

\* the three paragraphPatterns
paragraphPatterns ==
    << Cat(<<Lit(<<"D", "e", "s", "c", "r", "i", "p", "t", "i", "o", "n", ":">>), Plus(Cls("space")), Cap(LazyPlus(Cls("any"))), ParagraphEnd>>),
       Cat(<<Lit(<<"T", "h", "i", "s", " ", "p", "r", "o", "d", "u", "c", "t", " ", "i", "s", " ">>), Cap(LazyPlus(Cls("any"))), ParagraphEnd>>),
       Cat(<<Cap(LazyPlus(Cls("any"))),
             Ahead(Alt(<<Lit(<<"\n", "N", "u", "t", "r", "i", "t", "i", "o", "n", "a", "l", " ", "I", "n", "f", "o", "r", "m", "a", "t", "i", "o", "n", ":">>), Lit(<<"N", "u", "t", "r", "i", "t", "i", "o", "n", " ", "F", "a", "c", "t", "s", ":">>), Lit(<<"C", "a", "l", "o", "r", "i", "e", "s", ":">>), Eos>>))>>) >>

\* `match && match[1]?.trim() && match[1].length > 20`
RECURSIVE firstParagraphCapture(_, _)
firstParagraphCapture(responseText, i) ==
    IF i > Len(paragraphPatterns) THEN NullValue
    ELSE LET m == match(responseText, paragraphPatterns[i])
         IN  IF m.found /\ trim(m.group) # <<>> /\ Len(m.group) > 20
             THEN Value(trim(m.group))
             ELSE firstParagraphCapture(responseText, i + 1)

\* responseText.split(/\n\s*\n/)
RECURSIVE splitParagraphs(_)
splitParagraphs(str) ==
    LET gap == Cat(<<Lit(<<"\n">>), WS, Lit(<<"\n">>)>>)
        starts == {i \in 1..Len(str) : Len(Ends(gap, str, i, <<1, 1>>)) > 0}
    IN  IF starts = {} THEN <<str>>
        ELSE LET b == CHOOSE i \in starts : \A j \in starts : i <= j
             IN  <<SubSeq(str, 1, b - 1)>>
                   \o splitParagraphs(SubSeq(str, Ends(gap, str, b, <<1, 1>>)[1].end, Len(str)))

\* the words that mark a paragraph as nutritional information
NutritionWords ==
    {<<"c", "a", "l", "o", "r", "i", "e">>,
     <<"n", "u", "t", "r", "i", "t", "i", "o", "n">>,
     <<"p", "r", "o", "t", "e", "i", "n">>,
     <<"f", "a", "t">>,
     <<"c", "a", "r", "b">>}

\* the first paragraph of more than 40 characters without such a word,
\* trimmed: the loop ends there
RECURSIVE firstPlainParagraph(_, _)
firstPlainParagraph(paragraphs, i) ==
    IF i > Len(paragraphs) THEN NullValue
    ELSE IF /\ \A w \in NutritionWords : ~includes(toLowerCase(paragraphs[i]), w)
            /\ Len(paragraphs[i]) > 40
    THEN Value(trim(paragraphs[i]))
    ELSE firstPlainParagraph(paragraphs, i + 1)

\* description: what extractFromResponse found, then paragraphPatterns, then
\* a plain paragraph, then the whole response
descriptionOf(extractedDescription, responseText) ==
    LET paragraph == firstParagraphCapture(responseText, 1)
        plain == firstPlainParagraph(splitParagraphs(responseText), 1)
    IN  IF ~extractedDescription.isNull THEN extractedDescription.value
        ELSE IF ~paragraph.isNull THEN paragraph.value
        ELSE IF ~plain.isNull /\ plain.value # <<>> THEN plain.value
        ELSE responseText

\* `calories || ''`
OrEmpty(v) == IF v.isNull THEN <<>> ELSE v.value

\* `calories || 'Not available'`
OrNotAvailable(v) == IF v.isNull THEN NotAvailable ELSE v.value

\* the keys of the six calls of extractFromResponse, by what they are for
ExtractCalls ==
    [productName |-> NameKeys,
     calories |-> CaloriesKeys,
     fats |-> FatsKeys,
     carbs |-> CarbsKeys,
     proteins |-> ProteinsKeys,
     description |-> DescriptionKeys]

\* what the six calls return
extractAll(responseText) ==
    [f \in DOMAIN ExtractCalls |-> extractFromResponse(responseText, ExtractCalls[f])]

\* the fallbacks of productName and description, and the object of the
\* return statement
parseFields(found, responseText) ==
    [done |-> TRUE,
     caught |-> FALSE,
     productName |-> productNameOf(found["productName"], responseText),
     description |-> descriptionOf(found["description"], responseText),
     nutritionalInfo |->
        [isNull |-> FALSE,
         calories |-> OrNotAvailable(found["calories"]),
         fats |-> OrNotAvailable(found["fats"]),
         carbs |-> OrNotAvailable(found["carbs"]),
         proteins |-> OrNotAvailable(found["proteins"])]]

\* the object analyzeProductImage returns from its try block
parseResponse(responseText) == parseFields(extractAll(responseText), responseText)

\* the object analyzeProductImage returns from its catch block
SentinelText ==
    [done |-> TRUE,
     caught |-> TRUE,
     productName |-> UnknownProduct,
     description |-> SentinelDescription,
     nutritionalInfo |-> NotAnalysed.nutritionalInfo]

\* `response.choices[0]?.message?.content?.trim() || ''`
responseTextOf(r) == IF r.kind = "content" THEN trim(r.content) ELSE <<>>

\* what came before the parsing steps threw, or `response.choices` is
\* undefined and `response.choices[0]` throws
ReplyThrows(r) == r.kind \in {"failed", "nochoices"}

\* "Product Name: Acme Cola"
ContentName ==
    <<"P", "r", "o", "d", "u", "c", "t", " ", "N", "a", "m", "e", ":", " ", "A", "c", "m", "e", " ", "C", "o", "l", "a">>

\* "Description: A sweet soda"
ContentDescription ==
    <<"D", "e", "s", "c", "r", "i", "p", "t", "i", "o", "n", ":", " ", "A", " ", "s", "w", "e", "e", "t", " ", "s", "o", "d", "a">>

\* "Calories: 140 kcal"
ContentCalories ==
    <<"C", "a", "l", "o", "r", "i", "e", "s", ":", " ", "1", "4", "0", " ", "k", "c", "a", "l">>

\* "This is a crunchy oat bar"
ContentThisIs ==
    <<"T", "h", "i", "s", " ", "i", "s", " ", "a", " ", "c", "r", "u", "n", "c", "h", "y", " ", "o", "a", "t", " ", "b", "a", "r">>

\* "Crunchy Oat cereal"
ContentCereal ==
    <<"C", "r", "u", "n", "c", "h", "y", " ", "O", "a", "t", " ", "c", "e", "r", "e", "a", "l">>

\* "ok"
ContentShort ==
    <<"o", "k">>

\* "It comes in a big red can"
ContentParagraph ==
    <<"I", "t", " ", "c", "o", "m", "e", "s", " ", "i", "n", " ", "a", " ", "b", "i", "g", " ", "r", "e", "d", " ", "c", "a", "n">>

ContentLines ==
    {ContentName, ContentDescription, ContentCalories, ContentThisIs, ContentCereal, ContentShort, ContentParagraph}

\* a content of blanks only
ContentBlank == <<" ", "\n">>

MaxContentLines == 2

\* the contents of the completions: up to MaxContentLines lines, and the
\* empty ones
Contents ==
    {JoinLines(ls) : ls \in UNION {[1..n -> ContentLines] : n \in 1..MaxContentLines}}
        \cup {<<>>, ContentBlank}

\* what analyzeProductImage has when it reaches its parsing steps: a failure
\* thrown before them, a completion without choices, one without content,
\* one with a content
Replies ==
    {[kind |-> k, content |-> <<>>] : k \in {"failed", "nochoices", "nocontent"}}
        \cup {[kind |-> "content", content |-> c] : c \in Contents}

InitParse ==
    /\ now = 0
    /\ responseCache = [k \in CacheKeys |-> NoEntry]
    /\ call = [c \in Slots |-> IdleCall]
    /\ hasApiKey = TRUE
    /\ lastSuccess = [k \in CacheKeys |-> -1]
    /\ lastAnalysis = [u \in ImageUris |-> -1]
    /\ started = 0
    /\ ticks = 0
    /\ InitStore
    /\ NoExtract
    /\ NoScreen
    /\ reply \in Replies
    /\ analysed = NotAnalysed

\* analyzeProductImage from the parsing steps on: the parsed object, or the
\* sentinel of the catch block
ParseReply ==
    /\ ~analysed.done
    /\ analysed' = IF ReplyThrows(reply)
                   THEN SentinelText
                   ELSE parseResponse(responseTextOf(reply))
    /\ UNCHANGED <<openai, store, extractor, screen, reply>>

NextParse == ParseReply

SpecParse == InitParse /\ [][NextParse]_vars

\* ------------------------------------------------------------------------
\* processImage of the home screen
\* ------------------------------------------------------------------------
MaxScans == 2

\* useAuth().user: null when nobody is logged in
ScanUsers == UserIds \cup {Null}

\* what analyzeProductImage resolves with: a parsed object or the sentinel
ScanAnalyses == {"parsed", "sentinel"}

InitScreen ==
    /\ now = 0
    /\ responseCache = [k \in CacheKeys |-> NoEntry]
    /\ call = [c \in Slots |-> IdleCall]
    /\ hasApiKey = TRUE
    /\ lastSuccess = [k \in CacheKeys |-> -1]
    /\ lastAnalysis = [u \in ImageUris |-> -1]
    /\ started = 0
    /\ ticks = 0
    /\ InitStore
    /\ NoExtract
    /\ NoParse
    /\ user \in ScanUsers
    /\ isLoading = FALSE
    /\ scan = IdleScan
    /\ scans = 0

\* the auth state changes: a login or a logout
SetUser(u) ==
    /\ u # user
    /\ user' = u
    /\ UNCHANGED <<openai, store, extractor, parser, isLoading, scan, scans>>

\* processImage(uri) up to `await analyzeProductImage(uri)`; `user` is the
\* one of the render the function was made in
ProcessImage ==
    /\ scan.pc = "idle"
    /\ scans < MaxScans
    /\ scan' = [IdleScan EXCEPT !.pc = "analyze", !.uid = user]
    /\ isLoading' = TRUE
    /\ scans' = scans + 1
    /\ UNCHANGED <<openai, store, extractor, parser, user>>

\* `await analyzeProductImage(uri)` resolves, and
\* `await verifyProductRecall(...)` is started
AnalysisDone(a) ==
    /\ scan.pc = "analyze"
    /\ scan' = [scan EXCEPT !.pc = "recall", !.analysis = a]
    /\ UNCHANGED <<openai, store, extractor, parser, user, isLoading, scans>>

\* a save that is left out for the sentinel
AfterRecallUnlessSentinel(s) ==
    IF Truthy(s.uid) /\ s.analysis # "sentinel"
    THEN [s EXCEPT !.pc = "save",
                   !.saveCalls = @ + 1,
                   !.savedUid = s.uid,
                   !.savedAfter = s.recall]
    ELSE [s EXCEPT !.pc = "done"]

\* Step 3: `if (user)` starts `await saveScanHistory(user.uid, productDetails)`;
\* without a user the function is over
AfterRecall(s) ==
    IF Truthy(s.uid)
    THEN [s EXCEPT !.pc = "save",
                   !.saveCalls = @ + 1,
                   !.savedUid = s.uid,
                   !.savedAfter = s.recall]
    ELSE [s EXCEPT !.pc = "done"]

\* `await verifyProductRecall(...)` is over: its result, or the neutral
\* recall of the catch block, is set; then Step 3, and `finally` when the
\* function is over
RecallDone(ok) ==
    /\ scan.pc = "recall"
    /\ scan' = AfterRecall([scan EXCEPT !.recall = IF ok THEN "ok" ELSE "failed"])
    /\ isLoading' = IF scan'.pc = "done" THEN FALSE ELSE isLoading
    /\ UNCHANGED <<openai, store, extractor, parser, user, scans>>

\* `await saveScanHistory(...)` is over; `finally { setIsLoading(false) }`
SaveDone ==
    /\ scan.pc = "save"
    /\ scan' = [scan EXCEPT !.pc = "done"]
    /\ isLoading' = FALSE
    /\ UNCHANGED <<openai, store, extractor, parser, user, scans>>

\* resetScan: the screen is ready for the next image
ResetScan ==
    /\ scan.pc = "done"
    /\ scan' = IdleScan
    /\ UNCHANGED <<openai, store, extractor, parser, user, isLoading, scans>>

NextScreen ==
    \/ \E u \in ScanUsers : SetUser(u)
    \/ ProcessImage
    \/ \E a \in ScanAnalyses : AnalysisDone(a)
    \/ \E ok \in BOOLEAN : RecallDone(ok)
    \/ SaveDone
    \/ ResetScan

SpecScreen == InitScreen /\ [][NextScreen]_vars

\* each of the three awaited calls of processImage settles
FairScreen ==
    /\ WF_vars(\E a \in ScanAnalyses : AnalysisDone(a))
    /\ WF_vars(\E ok \in BOOLEAN : RecallDone(ok))
    /\ WF_vars(SaveDone)

SpecScreenLive == SpecScreen /\ FairScreen

\* ------------------------------------------------------------------------
\* Claims
\* ------------------------------------------------------------------------
Active == {c \in Slots : call[c].kind # "none"}

\* C1: a withRetry call with key k entered less than 24 hours after a
\* success with the same k returns the stored response and does not call the
\* operation.
C1_HitWithin24hSkipsOperation ==
    \A c \in Active :
        call[c].priorSuccess =>
            /\ call[c].invocations = 0
            /\ call[c].pc = "returned"
            /\ call[c].hit

\* C2: a withRetry call that misses the cache calls the operation at most
\* maxRetries + 1 times, exactly maxRetries + 1 times when every attempt
\* fails, and not again after the first success.
C2_AttemptsBounded ==
    \A c \in Active :
        /\ call[c].invocations <= call[c].maxRetries + 1
        /\ call[c].pc = "threw" =>
              /\ call[c].invocations = call[c].maxRetries + 1
              /\ call[c].failed = call[c].invocations
        /\ call[c].pc = "returned" /\ ~call[c].hit =>
              call[c].invocations = call[c].failed + 1
        /\ call[c].pc = "invoking" => call[c].invocations = call[c].failed + 1
        /\ call[c].pc = "waiting" => call[c].invocations = call[c].failed

\* a call with the default maxRetries gave up after its 6th failed attempt
C2_Witness ==
    \E c \in Active :
        /\ call[c].pc = "threw"
        /\ call[c].maxRetries = DEFAULT_MAX_RETRIES
        /\ call[c].invocations = 6

\* C3: when all maxRetries + 1 attempts fail, withRetry fails with the very
\* failure value the last attempt raised.
C3_LastFailurePropagated ==
    \A c \in Active :
        call[c].pc = "threw" =>
            /\ call[c].error = call[c].lastRaised
            /\ call[c].error \in OpErrors
            /\ call[c].failed = call[c].maxRetries + 1

\* a call gave up after several attempts, the last of which raised e2
C3_Witness ==
    \E c \in Active :
        /\ call[c].pc = "threw"
        /\ call[c].maxRetries >= 1
        /\ call[c].lastRaised = "e2"

\* C4: the backoff wait before the n-th retry lies in
\* [min(2^n * 500, 30000), min(2^n * 1500, 30000)] ms, so never above 30000.
C4_BackoffWithinBounds ==
    \A c \in Active :
        call[c].pc = "waiting" =>
            LET n == call[c].retries
            IN  /\ n \in 1..call[c].maxRetries
                /\ call[c].backoff >= Min(Pow2(n) * 500, 30000)
                /\ call[c].backoff <= Min(Pow2(n) * 1500, 30000)
                /\ call[c].backoff <= 30000

\* the wait before the 5th retry, where the cap cuts the backoff to 30000
C4_Witness ==
    \E c \in Active :
        /\ call[c].pc = "waiting"
        /\ call[c].retries = 5
        /\ call[c].backoff = 30000

\* C5: an entry aged 24 hours or more is treated as absent (the operation is
\* called), and a cache hit is always for an entry younger than 24 hours.
C5_ExpiredEntryIsAbsent ==
    \A c \in Active :
        /\ call[c].entryAge >= CACHE_EXPIRY =>
              ~call[c].hit /\ call[c].invocations >= 1
        /\ call[c].hit =>
              call[c].entryAge >= 0 /\ call[c].entryAge < CACHE_EXPIRY

\* a call found an entry aged exactly 24 hours and called the operation
C5_Witness ==
    \E c \in Active :
        /\ call[c].entryAge = CACHE_EXPIRY
        /\ call[c].invocations >= 1

\* C6: when an attempt of a withRetry call with a cacheKey succeeds, the
\* cache holds, as the call returns, an entry for that key with the returned
\* result and the time of the success.
C6_SuccessIsCached ==
    [][\A c \in Slots :
          (/\ call[c].pc = "invoking"
           /\ call'[c].pc = "returned"
           /\ Truthy(call[c].cacheKey))
          => /\ responseCache'[call[c].cacheKey] =
                   [present |-> TRUE,
                    timestamp |-> now',
                    response |-> call'[c].result]
             /\ call'[c].successAt = now']_vars

\* a keyed call succeeded on a retry, after time had passed
C6_Witness ==
    \E c \in Active :
        /\ call[c].pc = "returned"
        /\ ~call[c].hit
        /\ call[c].retries >= 1
        /\ Truthy(call[c].cacheKey)
        /\ call[c].successAt > 0
        /\ responseCache[call[c].cacheKey].timestamp = call[c].successAt

\* C7: two withRetry calls with the same key that are in progress together
\* have each called the operation on their own; nothing keeps a key to one
\* invocation in flight.
C7_ConcurrentCallsEachInvoke ==
    \A c, d \in Active :
        (/\ c # d
         /\ call[c].cacheKey = call[d].cacheKey
         /\ Truthy(call[c].cacheKey)
         /\ call[c].pc \in {"invoking", "waiting"}
         /\ call[d].pc \in {"invoking", "waiting"})
        => call[c].invocations >= 1 /\ call[d].invocations >= 1

\* two invocations of the operation in flight for the same key
C7_Witness ==
    \E c, d \in Active :
        /\ c # d
        /\ call[c].cacheKey = call[d].cacheKey
        /\ Truthy(call[c].cacheKey)
        /\ call[c].pc = "invoking"
        /\ call[d].pc = "invoking"
        /\ call[c].invocations = 1
        /\ call[d].invocations = 1

\* C8: analyzeProductImage never raises; whenever something inside it threw
\* it returns 'Unknown Product', a non-empty apology and a null
\* nutritionalInfo.
C8_AnalyzeNeverRaises ==
    \A c \in Active :
        call[c].kind = "analyze" =>
            /\ ~call[c].raised
            /\ call[c].pc = "threw" /\ call[c].apc = "done" =>
                  call[c].threwAt = "model"
            /\ call[c].threwAt # "none" =>
                  /\ call[c].apc = "done"
                  /\ call[c].out.productName = "Unknown Product"
                  /\ call[c].out.description # ""
                  /\ call[c].out.nutritionalInfo.isNull

\* the model call failed 6 times and the caller got the sentinel
C8_Witness ==
    \E c \in Active :
        /\ call[c].kind = "analyze"
        /\ call[c].apc = "done"
        /\ call[c].pc = "threw"
        /\ call[c].invocations = 6
        /\ call[c].threwAt = "model"
        /\ call[c].caught \in OpErrors
        /\ call[c].out = Sentinel

\* C9: without the API credential analyzeProductImage ends at once on the
\* configuration error: no upload, no cache lookup, no model call, no wait.
C9_MissingCredentialFailsFast ==
    \A c \in Active :
        call[c].kind = "analyze" /\ ~hasApiKey =>
            /\ call[c].apc = "done"
            /\ call[c].threwAt = "config"
            /\ call[c].caught = "Error: OpenAI API key is missing"
            /\ call[c].uploads = 0
            /\ call[c].lookups = 0
            /\ call[c].invocations = 0
            /\ call[c].waits = 0

\* analyzeProductImage was called without the credential
C9_Witness ==
    \E c \in Active :
        /\ call[c].kind = "analyze"
        /\ ~hasApiKey
        /\ call[c].apc = "done"
        /\ call[c].out = Sentinel

\* C10 as stated: an analyzeProductImage call made less than 24 hours after
\* a successful model call for the same URI does no upload and no model call.
C10_RepeatDoesNoUploadNoModelCall ==
    \A c \in Active :
        call[c].kind = "analyze" /\ call[c].recentAtEntry =>
            call[c].uploads = 0 /\ call[c].invocations = 0

\* C10 amended: only the model call goes through withRetry.  A repeat call
\* always uploads again, and it does no model call when it reaches withRetry
\* less than 24 hours after the successful model call for the same URI.
C10_RepeatUploadsButSkipsModelCall ==
    \A c \in Active :
        call[c].kind = "analyze" =>
            /\ call[c].recentAtEntry => call[c].uploads = 1
            /\ call[c].recentAtLookup =>
                  /\ call[c].hit
                  /\ call[c].invocations = 0
                  /\ call[c].waits = 0

\* a repeat call uploaded again and was answered from the cache
C10_Witness ==
    \E c \in Active :
        /\ call[c].kind = "analyze"
        /\ call[c].recentAtEntry
        /\ call[c].recentAtLookup
        /\ call[c].uploads = 1
        /\ call[c].apc = "done"
        /\ call[c].hit
        /\ ~call[c].out.nutritionalInfo.isNull


\* ------------------------------------------------------------------------
\* Claims about the history store
\* ------------------------------------------------------------------------
ListDone(c) == task[c].op = "list" /\ task[c].pc = "done"

\* C11: a save(u, d) followed immediately by list(u) returns a list with an
\* entry whose recallInfo equals d.recallInfo, whichever of the remote and
\* local paths the save and the list took.
C11_SaveThenListRoundTrip ==
    \A c \in Slots :
        (ListDone(c) /\ lastSaved.stored /\ lastSaved.userId = task[c].userId)
        => \E i \in 1..Len(task[c].result) :
              task[c].result[i].recallInfo = lastSaved.recallInfo

\* C12: save never raises; a save whose remote write failed and whose local
\* read and write succeeded has appended exactly one record, that of the
\* saved details, to the local list of its userId and to no other list; a
\* save whose local read or write failed too returns normally.
C12_SaveNeverRaisesAndAppendsLocally ==
    [][\A c \in Slots :
          (task'[c].op = "save" /\ task[c].pc # "done" /\ task'[c].pc = "done")
          => /\ ~task'[c].raised
             /\ (task'[c].remote = "failed" /\ task'[c].localRead = "ok"
                   /\ task'[c].localWrite = "ok")
                => LET k == <<"scanHistory_", task'[c].userId>>
                       old == asyncStorage[k].json
                       new == asyncStorage'[k].json
                   IN  /\ asyncStorage'[k].present
                       /\ Len(new) = Len(old) + 1
                       /\ SubSeq(new, 1, Len(old)) = old
                       /\ new[Len(new)].userId = task'[c].userId
                       /\ new[Len(new)].recallInfo = task'[c].productDetails.recallInfo
                       /\ DateOfISOString(new[Len(new)].scanDate)
                            = task'[c].productDetails.scanDate
                       /\ \A j \in DOMAIN asyncStorage :
                             j # k => asyncStorage'[j] = asyncStorage[j]
                       /\ scanHistory' = scanHistory]_vars

C12_Witness ==
    \E c \in Slots :
        /\ task[c].op = "save" /\ task[c].pc = "done"
        /\ task[c].remote = "failed" /\ task[c].localWrite = "ok"
        /\ Len(asyncStorage[<<"scanHistory_", task[c].userId>>].json) = 2

\* C13: a save with an empty userId returns at once without raising, having
\* called neither the remote write nor the local read or write, and leaves
\* both stores as they were.
C13_EmptyUserIdIsNoOp ==
    /\ [](\A c \in Slots :
            (task[c].op = "save" /\ task[c].userId = "")
            => /\ task[c].pc = "done"
               /\ ~task[c].raised
               /\ task[c].addDocCalls = 0
               /\ task[c].getItemCalls = 0
               /\ task[c].setItemCalls = 0)
    /\ [][\A c \in Slots :
            (task'[c].op = "save" /\ task'[c].userId = "" /\ task[c].op = "none")
            => (scanHistory' = scanHistory /\ asyncStorage' = asyncStorage)]_vars

C13_Witness ==
    \E c \in Slots :
        /\ task[c].op = "save" /\ task[c].userId = "" /\ task[c].pc = "done"
        /\ saves[""] = 1

\* the entries of a list with a given recallInfo and date
CountIn(list, ri, d) ==
    Cardinality({i \in 1..Len(list) : list[i].recallInfo = ri /\ list[i].scanDate = d})

Descending(list) ==
    \A i, j \in 1..Len(list) : i < j => list[i].scanDate >= list[j].scanDate

\* C14: a list whose remote query succeeded returns exactly the remote
\* records whose userId is the argument; a list whose remote query failed
\* (and whose local read succeeded) returns exactly the local list of that
\* user; both are ordered by scanDate, latest first.
C14_ListReturnsStoreSortedDescending ==
    \A c \in Slots :
        ListDone(c) =>
            LET u == task[c].userId
                res == task[c].result
                loc == asyncStorage[<<"scanHistory_", u>>].json
            IN  /\ task[c].remote = "ok" =>
                    /\ Descending(res)
                    /\ \A ri \in RecallInfos, d \in ScanDates :
                          CountIn(res, ri, d) =
                            Cardinality({i \in 1..Len(scanHistory) :
                                /\ scanHistory[i].userId = u
                                /\ scanHistory[i].recallInfo = ri
                                /\ scanHistory[i].scanDate.seconds * 1000
                                     + scanHistory[i].scanDate.nanoseconds \div 1000000 = d})
                /\ (task[c].remote = "failed" /\ task[c].localRead = "ok") =>
                    /\ Descending(res)
                    /\ \A ri \in RecallInfos, d \in ScanDates :
                          CountIn(res, ri, d) =
                            Cardinality({i \in 1..Len(loc) :
                                /\ loc[i].recallInfo = ri
                                /\ loc[i].scanDate = <<"iso", d \div 1000, d % 1000>>})

C14_Witness ==
    \E c \in Slots :
        /\ ListDone(c)
        /\ task[c].remote = "ok"
        /\ Len(task[c].result) = 2
        /\ task[c].result[1].scanDate > task[c].result[2].scanDate
        /\ scanHistory[1].scanDate.seconds < scanHistory[2].scanDate.seconds

\* C15: list never raises; it returns the empty list for a userId no save
\* was made with, on the remote and on the local path, and when the remote
\* query and the local read both fail.
C15_ListNeverRaises ==
    \A c \in Slots :
        task[c].op = "list" =>
            /\ ~task[c].raised
            /\ task[c].pc = "done" =>
                /\ task[c].priorSaves = 0 => task[c].result = <<>>
                /\ (task[c].remote = "failed" /\ task[c].localRead = "failed")
                   => task[c].result = <<>>

C15_Witness ==
    \E c \in Slots :
        /\ ListDone(c)
        /\ task[c].remote = "failed"
        /\ task[c].localRead = "failed"
        /\ asyncStorage[<<"scanHistory_", task[c].userId>>].present

\* what the two stores hold for a user
StoredFor(u) ==
    <<SelectSeq(scanHistory, LAMBDA doc : doc.userId = u), asyncStorage[LocalKey(u)]>>

\* C16: list(u) returns only records that were stored with userId u, and
\* what the stores hold for u changes only in a step of a save for u.
C16_PerUserIsolation ==
    /\ [](\A c \in Slots :
            ListDone(c) =>
                \A i \in 1..Len(task[c].result) :
                    task[c].result[i].storedUserId = task[c].userId)
    /\ [][\A u \in UserIds :
            StoredFor(u)' # StoredFor(u)
            => \E c \in Slots : task[c].op = "save" /\ task[c].userId = u
                                /\ task'[c] # task[c]]_vars

C16_Witness ==
    \E c \in Slots :
        /\ ListDone(c)
        /\ task[c].remote = "failed"
        /\ Len(task[c].result) = 1
        /\ \E u \in UserIds : u # task[c].userId /\ StoredFor(u)[2].present

\* C17: the local list of a user is append-only: a step never removes or
\* changes a record already stored, also when two saves for the same user
\* interleave their local read and write.
C17_LocalListAppendOnly ==
    [][\A k \in DOMAIN asyncStorage :
          asyncStorage[k].present
          => /\ asyncStorage'[k].present
             /\ Len(asyncStorage'[k].json) >= Len(asyncStorage[k].json)
             /\ SubSeq(asyncStorage'[k].json, 1, Len(asyncStorage[k].json))
                  = asyncStorage[k].json]_vars


\* ------------------------------------------------------------------------
\* Claims about uploadImageToFirebase
\* ------------------------------------------------------------------------
\* uploadImageToFirebase has returned or thrown
UploadOver(c) ==
    call[c].kind = "analyze" /\ call[c].uploads = 1 /\ call[c].apc \in {"model", "done"}

\* C18: when a step of the remote path failed and the local file read
\* succeeded, uploadImageToFirebase returns "data:image/jpeg;base64,"
\* followed by the base64 encoding of the local file.
C18_FallbackReturnsDataUri ==
    \A c \in Active :
        (call[c].kind = "analyze" /\ call[c].remoteFailed /\ call[c].fileRead = "ok")
        => /\ UploadOver(c)
           /\ call[c].threwAt # "upload"
           /\ call[c].imageUrl.scheme = "data:image/jpeg;base64,"
           /\ call[c].imageUrl.body = Base64Of(call[c].imageUri)

C18_Witness ==
    \E c \in Active :
        /\ call[c].kind = "analyze"
        /\ call[c].remoteFailed
        /\ call[c].fileRead = "ok"
        /\ call[c].apc = "model"
        /\ call[c].imageUrl.body = "/9j/4AAQSkZJRgABAgAAZA=="

\* C19: uploadImageToFirebase returns the download URL when the remote path
\* succeeded; it throws only when the remote path failed and the base64 read
\* failed too, and returns a string otherwise; when it throws,
\* analyzeProductImage returns the sentinel.
C19_UploadThrowsOnlyWhenBothFail ==
    \A c \in Active :
        call[c].kind = "analyze" =>
            /\ (UploadOver(c) /\ ~call[c].remoteFailed)
               => /\ call[c].threwAt # "upload"
                  /\ call[c].imageUrl = [scheme |-> "https://", body |-> call[c].imageUri]
            /\ call[c].threwAt = "upload"
               => /\ call[c].remoteFailed
                  /\ call[c].fileRead = "failed"
                  /\ call[c].apc = "done"
                  /\ ~call[c].raised
                  /\ call[c].out = Sentinel
            /\ (UploadOver(c) /\ ~(call[c].remoteFailed /\ call[c].fileRead = "failed"))
               => /\ call[c].threwAt # "upload"
                  /\ call[c].imageUrl.scheme \in {"https://", "data:image/jpeg;base64,"}

C19_Witness ==
    \E c \in Active :
        /\ call[c].kind = "analyze"
        /\ call[c].threwAt = "upload"
        /\ call[c].remoteFailed
        /\ call[c].fileRead = "failed"
        /\ call[c].apc = "done"
        /\ call[c].out = Sentinel


\* ------------------------------------------------------------------------
\* Claims about extractFromResponse
\* ------------------------------------------------------------------------
\* the lines of a text
RECURSIVE LinesOf(_)
LinesOf(str) ==
    LET breaks == {i \in 1..Len(str) : str[i] = "\n"}
    IN  IF breaks = {} THEN <<str>>
        ELSE LET b == CHOOSE i \in breaks : \A j \in breaks : i <= j
             IN  <<SubSeq(str, 1, b - 1)>> \o LinesOf(SubSeq(str, b + 1, Len(str)))

\* the line is "Key: value" for the key, with a value that is not blank
KeyValueLine(line, key) ==
    /\ Len(line) > Len(key) + 1
    /\ toLowerCase(SubSeq(line, 1, Len(key))) = toLowerCase(key)
    /\ line[Len(key) + 1] = ":"
    /\ trim(SubSeq(line, Len(key) + 2, Len(line))) # <<>>

ValueOfLine(line, key) == trim(SubSeq(line, Len(key) + 2, Len(line)))

\* C20: extract("Calories: 250kcal", "calories") returns "250kcal" and
\* extract("no data here", "calories") returns null; a text with a line
\* "Key: value" for the primary key yields the trimmed value of such a line,
\* and a text that holds none of the candidate keys yields null.
C20_ExtractKeyValue ==
    extracted.done =>
        /\ text = LineKeyValue
           => (~extracted.isNull /\ extracted.value = <<"2", "5", "0", "k", "c", "a", "l">>)
        /\ text = LineNoData => extracted.isNull
        /\ (\E i \in 1..Len(LinesOf(text)) : KeyValueLine(LinesOf(text)[i], keys[1]))
           => /\ ~extracted.isNull
              /\ \E i \in 1..Len(LinesOf(text)) :
                    /\ KeyValueLine(LinesOf(text)[i], keys[1])
                    /\ extracted.value = ValueOfLine(LinesOf(text)[i], keys[1])
        /\ (\A k \in 1..Len(keys) : ~includes(toLowerCase(text), toLowerCase(keys[k])))
           => extracted.isNull

\* some structural pattern of the key captures a value that is not blank
StructuralMatch(txt, key) == ~firstCapture(txt, patterns(key), 1).isNull

\* the values the structural patterns of the key can yield
StructuralCaptures(txt, key) ==
    {trim(match(txt, patterns(key)[i]).group) :
        i \in {j \in 1..Len(patterns(key)) : match(txt, patterns(key)[j]).found}}

\* C21: the bullet patterns and the sentence scan are consulted only if no
\* structural pattern matches any candidate key: whenever some key, primary
\* or alternate, has a structural match, the result is a structural capture
\* of one of the keys.
C21_StructuralBeforeFallbacks ==
    (extracted.done /\ \E k \in 1..Len(keys) : StructuralMatch(text, keys[k]))
        => /\ ~extracted.isNull
           /\ \E k \in 1..Len(keys) :
                 extracted.value \in StructuralCaptures(text, keys[k])

\* the range of a sequence
Range(seq) == {seq[i] : i \in 1..Len(seq)}

\* the pattern matches the text with a capture that is not blank
PatternMatches(txt, p) ==
    match(txt, p).found /\ \E ch \in Range(match(txt, p).group) : ch \notin Spaces

\* a sentence of the text holds the key and either a number with a unit or
\* fewer than SENTENCE_MAX characters
SentenceMatches(txt, key) ==
    \E s \in Range(split(txt)) :
        /\ includes(toLowerCase(s), toLowerCase(key))
        /\ \/ \E i \in 1..Len(numberWithUnit) : match(s, numberWithUnit[i]).found
           \/ Len(s) < SENTENCE_MAX

\* the key produces a match in a pattern family or in the sentence fallback
KeyMatches(txt, key) ==
    \/ \E p \in Range(patterns(key)) \cup Range(bulletPatterns(key)) :
          PatternMatches(txt, p)
    \/ SentenceMatches(txt, key)

\* C22: extract returns null exactly when no candidate key produces a match
\* in any pattern family or fallback; every result that is not null is a
\* string that is not empty and has no white space at either end.
C22_NullIffNoMatch ==
    extracted.done =>
        /\ extracted.isNull <=> ~\E k \in 1..Len(keys) : KeyMatches(text, keys[k])
        /\ ~extracted.isNull =>
              /\ extracted.value # <<>>
              /\ extracted.value[1] \notin Spaces
              /\ extracted.value[Len(extracted.value)] \notin Spaces

\* a text that holds the primary key, in a sentence too long to be returned
\* and with no number, yielded null
C22_Witness ==
    /\ extracted.done
    /\ extracted.isNull
    /\ includes(toLowerCase(text), toLowerCase(keys[1]))
    /\ \A k \in 1..Len(keys) : ~KeyMatches(text, keys[k])

\* ------------------------------------------------------------------------
\* Claims about the cache and the retry loop of withRetry
\* ------------------------------------------------------------------------
\* C23: the cache is written only by a successful attempt of a call with a
\* cacheKey, and only under that key; a call that ended in failure left the
\* entry of its key as it found it (absent stays absent, an expired entry is
\* neither removed nor refreshed); a call without a cacheKey neither reads
\* nor writes the cache.
C23_CacheWrittenOnlyBySuccess ==
    /\ [](\A c \in Active :
            /\ ~Truthy(call[c].cacheKey) => call[c].lookups = 0 /\ ~call[c].hit
            /\ (call[c].pc = "threw" /\ Truthy(call[c].cacheKey)) =>
                  /\ responseCache[call[c].cacheKey].present <=> call[c].entryAge >= 0
                  /\ responseCache[call[c].cacheKey].present =>
                        /\ responseCache[call[c].cacheKey].timestamp
                              = lastSuccess[call[c].cacheKey]
                        /\ now - responseCache[call[c].cacheKey].timestamp
                              >= call[c].entryAge)
    /\ [][responseCache' # responseCache =>
            \E c \in Slots :
                /\ call[c].pc = "invoking"
                /\ call'[c].pc = "returned"
                /\ Truthy(call[c].cacheKey)
                /\ \A k \in CacheKeys \ {call[c].cacheKey} :
                      responseCache'[k] = responseCache[k]]_vars

\* a call that found an expired entry under its key has given up, and the
\* entry is still the one of the earlier success
C23_Witness ==
    \E c \in Active :
        /\ call[c].pc = "threw"
        /\ Truthy(call[c].cacheKey)
        /\ call[c].entryAge >= CACHE_EXPIRY
        /\ responseCache[call[c].cacheKey].present
        /\ responseCache[call[c].cacheKey].timestamp = lastSuccess[call[c].cacheKey]

\* C24: a cache hit leaves the cache unchanged, the timestamp of the entry
\* included, so every hit is less than 24 hours after the success that
\* created the entry.
C24_HitLeavesCacheUnchanged ==
    /\ [](\A c \in Active :
            call[c].hit =>
                /\ call[c].priorSuccess
                /\ responseCache[call[c].cacheKey].timestamp
                      = lastSuccess[call[c].cacheKey])
    /\ [][\A c \in Slots :
            (call[c].kind = "none" /\ call'[c].hit)
                => responseCache' = responseCache]_vars

\* a hit some time after the success: the entry still has the time of the
\* success
C24_Witness ==
    \E c \in Active :
        /\ call[c].hit
        /\ call[c].entryAge > 0
        /\ responseCache[call[c].cacheKey].timestamp = now - call[c].entryAge

\* a call is running
Running(c) == call[c].pc \in {"invoking", "waiting"}

\* a call has returned a result or raised
Ended(c) == call[c].pc \in {"returned", "threw"}

\* C25: every withRetry call whose invocations and waits end comes to an
\* end itself: it returns or raises, after at most maxRetries + 1
\* invocations and at most maxRetries waits.
C25_WithRetryTerminates ==
    /\ \A c \in Slots : Running(c) ~> Ended(c)
    /\ [](\A c \in Active :
            /\ call[c].invocations <= call[c].maxRetries + 1
            /\ call[c].waits <= call[c].maxRetries)

\* a call with maxRetries 2 has raised after 3 invocations and 2 waits
C25_Witness ==
    \E c \in Active :
        /\ call[c].pc = "threw"
        /\ call[c].maxRetries = 2
        /\ call[c].invocations = 3
        /\ call[c].waits = 2

\* C26: within one withRetry call invocations and waits alternate: a wait
\* starts only when an invocation has failed, the next invocation starts only
\* when that wait is over, and there is no wait before the first invocation,
\* after a success or after the last failed attempt.
C26_InvocationsAndWaitsAlternate ==
    /\ [](\A c \in Active :
            /\ call[c].pc = "invoking" => call[c].waits = call[c].invocations - 1
            /\ call[c].pc = "waiting" => call[c].waits = call[c].invocations
            /\ call[c].pc = "threw" => call[c].waits = call[c].invocations - 1
            /\ call[c].pc = "returned" =>
                  IF call[c].hit
                  THEN call[c].waits = 0 /\ call[c].invocations = 0
                  ELSE call[c].waits = call[c].invocations - 1)
    /\ [][\A c \in Slots :
            /\ (call[c].kind # "none" /\ call'[c].invocations = call[c].invocations + 1)
                  => call[c].pc = "waiting" /\ call'[c].waits = call[c].waits
            /\ (call[c].kind # "none" /\ call'[c].waits = call[c].waits + 1)
                  => /\ call[c].pc = "invoking"
                     /\ call'[c].pc = "waiting"
                     /\ call'[c].invocations = call[c].invocations]_vars

\* a call returned the result of its third invocation, after two waits
C26_Witness ==
    \E c \in Active :
        /\ call[c].pc = "returned"
        /\ ~call[c].hit
        /\ call[c].invocations = 3
        /\ call[c].waits = 2

\* ------------------------------------------------------------------------
\* Claims about the two stores of the history
\* ------------------------------------------------------------------------
\* C27: a save adds its record to at most one store: it reads or writes the
\* local list only after its own remote write failed, the local store
\* changes only in the local write of such a save, and no step changes both
\* stores.
C27_SaveWritesOneStore ==
    /\ [](\A c \in Slots :
            task[c].op = "save" =>
                /\ (\/ task[c].getItemCalls > 0
                    \/ task[c].setItemCalls > 0
                    \/ task[c].localRead # "none"
                    \/ task[c].localWrite # "none"
                    \/ task[c].pc \in {"getItem", "setItem"})
                   => task[c].remote = "failed"
                /\ task[c].remote = "ok" => task[c].pc = "done")
    /\ [][/\ (asyncStorage' # asyncStorage) =>
                (/\ scanHistory' = scanHistory
                 /\ \E c \in Slots :
                       /\ task[c].op = "save"
                       /\ task[c].pc = "setItem"
                       /\ task[c].remote = "failed")
          /\ (scanHistory' # scanHistory) =>
                (\E c \in Slots :
                       /\ task[c].op = "save"
                       /\ task[c].pc = "addDoc"
                       /\ task'[c].remote = "ok"
                       /\ task'[c].pc = "done")]_vars

\* a save ended after its remote write failed and its local write worked:
\* its record is in the local list and not among the remote documents
C27_Witness ==
    \E c \in Slots :
        /\ task[c].op = "save"
        /\ task[c].pc = "done"
        /\ task[c].remote = "failed"
        /\ task[c].localWrite = "ok"
        /\ scanHistory = <<>>
        /\ Len(asyncStorage[LocalKey(task[c].userId)].json) = 1

\* the records list would return from the remote documents of the user
RemoteRecords(u) == Range(MapDocs(QueryByUser(u)))

\* the records list would return from the local list of the user
LocalRecords(u) == Range(MapLocal(asyncStorage[LocalKey(u)].json))

\* C28: list never merges the two stores: when the remote query succeeded,
\* the result has as many records as the user has remote documents and none
\* of the records that are only in the local list of the user; when it
\* failed, the result has as many records as the local list (none when the
\* local read failed too) and none of the records that are only remote.
C28_ListNeverMerges ==
    \A c \in Slots :
        ListDone(c) =>
            LET u == task[c].userId
                res == Range(task[c].result)
            IN  /\ task[c].remote = "ok" =>
                    /\ res \cap (LocalRecords(u) \ RemoteRecords(u)) = {}
                    /\ Len(task[c].result) = Len(QueryByUser(u))
                /\ task[c].remote = "failed" =>
                    /\ res \cap (RemoteRecords(u) \ LocalRecords(u)) = {}
                    /\ Len(task[c].result) =
                          IF task[c].localRead = "ok"
                          THEN Len(asyncStorage[LocalKey(u)].json)
                          ELSE 0

\* a list whose query succeeded, for a user with a record that is only in
\* the local list
C28_Witness ==
    \E c \in Slots :
        /\ ListDone(c)
        /\ task[c].remote = "ok"
        /\ Len(task[c].result) = 1
        /\ LocalRecords(task[c].userId) \ RemoteRecords(task[c].userId) # {}

\* ------------------------------------------------------------------------
\* Claims about the object analyzeProductImage returns
\* ------------------------------------------------------------------------
\* a field of nutritionalInfo: 'Not available', or a piece of the response
\* that is not empty
FieldOk(value, responseText) ==
    /\ value # <<>>
    /\ value # NotAvailable => includes(responseText, value)

\* C29: analyzeProductImage returns a null nutritionalInfo exactly when its
\* catch block ran, and then the sentinel; otherwise each of the four
\* fields is an extracted string that is not empty or 'Not available', and
\* productName is not empty. A completion with an empty content yields
\* 'Unknown Product', four fields 'Not available' and an empty description.
C29_NutritionalInfoNullIffCaught ==
    analysed.done =>
        /\ analysed.nutritionalInfo.isNull <=> analysed.caught
        /\ analysed.caught <=> ReplyThrows(reply)
        /\ analysed.caught =>
              /\ analysed.productName = UnknownProduct
              /\ analysed.description = SentinelDescription
        /\ ~analysed.caught =>
              /\ analysed.productName # <<>>
              /\ FieldOk(analysed.nutritionalInfo.calories, responseTextOf(reply))
              /\ FieldOk(analysed.nutritionalInfo.fats, responseTextOf(reply))
              /\ FieldOk(analysed.nutritionalInfo.carbs, responseTextOf(reply))
              /\ FieldOk(analysed.nutritionalInfo.proteins, responseTextOf(reply))
        /\ (~ReplyThrows(reply) /\ responseTextOf(reply) = <<>>) =>
              /\ analysed.productName = UnknownProduct
              /\ ~analysed.nutritionalInfo.isNull
              /\ analysed.nutritionalInfo.calories = NotAvailable
              /\ analysed.nutritionalInfo.fats = NotAvailable
              /\ analysed.nutritionalInfo.carbs = NotAvailable
              /\ analysed.nutritionalInfo.proteins = NotAvailable
              /\ analysed.description = <<>>

\* a completion whose content is blank has been parsed
C29_Witness ==
    /\ analysed.done
    /\ reply.kind = "content"
    /\ reply.content = ContentBlank
    /\ ~analysed.nutritionalInfo.isNull
    /\ analysed.productName = UnknownProduct
    /\ analysed.description = <<>>

\* ------------------------------------------------------------------------
\* Claims about processImage
\* ------------------------------------------------------------------------
\* C30: a processImage call made with a logged-in user calls
\* saveScanHistory exactly once for its analysis, the sentinel included,
\* with that user and after the recall check is over; a call made with no
\* user never calls it; the loading flag set by a call is reset to false
\* in the end.
C30_EveryAnalysisSavedOnce ==
    /\ [](/\ scan.saveCalls <= 1
          /\ scan.saveCalls = 1 =>
                /\ Truthy(scan.uid)
                /\ scan.savedUid = scan.uid
                /\ scan.analysis \in ScanAnalyses
                /\ scan.recall \in {"ok", "failed"}
                /\ scan.savedAfter = scan.recall
          /\ ~Truthy(scan.uid) => scan.saveCalls = 0
          /\ (scan.pc \in {"save", "done"} /\ Truthy(scan.uid)) => scan.saveCalls = 1
          /\ isLoading <=> scan.pc \in {"analyze", "recall", "save"})
    /\ (scan.pc = "recall" /\ Truthy(scan.uid)) ~> (scan.saveCalls = 1)
    /\ isLoading ~> ~isLoading

\* the sentinel of a failed analysis has been saved for a logged-in user
\* and the loading flag is off
C30_Witness ==
    /\ scan.pc = "done"
    /\ Truthy(scan.uid)
    /\ scan.analysis = "sentinel"
    /\ scan.recall = "failed"
    /\ scan.saveCalls = 1
    /\ ~isLoading

====
